---- MODULE Spec2Model ----
(***************************************************************************)
(* FAT32 recovery engine of koolcandy/os2025.                              *)
(*                                                                         *)
(*   src/fsrecov/fsrecov.c          raw stride scan, cluster_to_sec,       *)
(*                                  read_bmp_data, main (primary variant)  *)
(*   src/.shadow/fsrecov/fsrecov.c  structured walk, recover_file_data,    *)
(*                                  calculate_sha1 (fork-per-file variant) *)
(*   src/.shadow/fsrecov/teest.c    entry decoder, LFN checksum            *)
(*                                                                         *)
(* C's uint32_t arithmetic is kept modular.  TLC's integers are 32-bit    *)
(* signed, so the word is scaled down to WordBits bits: every u32          *)
(* expression of the source is reduced modulo U32 = 2^WordBits exactly     *)
(* where the source's arithmetic is reduced modulo 2^32.  Pointers and     *)
(* off_t are 64-bit in the source and are unbounded integers here.         *)
(***************************************************************************)
EXTENDS Integers, Sequences, FiniteSets, TLC

VARIABLES
    pc,         \* position of the running program
    hdr,        \* struct fat32hdr: the boot-sector fields the code reads
    fsize,      \* length of the image file (lseek(fd, 0, SEEK_END))
    cts_arg,    \* SpecVolume: last argument given to cluster_to_sec
    cts_ret,    \* SpecVolume: what cluster_to_sec returned for it
    dents,      \* the data region as the raw scan sees it: one 32-byte
                \* record view per 16-byte stride position
    p,          \* read_all_dents: index of the stride position of the loop
    bmp_files,  \* the candidates found (bmp_count = Len(bmp_files))
    idx,        \* main: index i of the recovery loop
    dir_exists, \* whether OUTPUT_DIR exists
    out_dir,    \* the files of OUTPUT_DIR
    report,     \* names on the sha1sum report lines
    munmaps,    \* how often the image mapping has been unmapped
    exit_status,\* exit status of the process, once pc = "exit"
    passes,     \* SpecResolve: the clusters whose bytes pass is_bmp_data
    file,       \* SpecResolve: the RecoveredFile of the worker
    tmp_file,   \* SpecResolve: the fwrite calls into the temporary file
    entry,      \* SpecEntry: the 32 bytes of one directory record
    info,       \* SpecEntry: the ParsedEntryInfo parse_single_entry filled
    calculated_checksum, \* SpecEntry: what calculate_lfn_checksum returned
    texts,      \* SpecEntry: the name text each decoder took from entry
    dirs,       \* SpecWalk: the records of the data clusters
    clusterTypes,       \* SpecWalk: enum ClusterType per cluster number
    slot,               \* SpecWalk: the records the walk has passed
    recoveredFileCount, \* SpecWalk: the counter of the parent
    running,    \* SpecWalk: forked children that have not terminated
    zombies,    \* SpecWalk: terminated children the parent has not reaped
    forked,     \* SpecWalk: the candidates a child was forked for
    arg,        \* SpecCall: the arguments of the function called
    ret,        \* SpecCall: what the call returned and what it accessed
    workers,    \* SpecWorkers: the candidate and the position of each worker
    tmp_dir     \* SpecWorkers: the files of /tmp, by name

vars == <<pc, hdr, fsize, cts_arg, cts_ret, dents, p, bmp_files, idx,
          dir_exists, out_dir, report, munmaps, exit_status, passes, file,
          tmp_file, entry, info, calculated_checksum, texts, dirs, clusterTypes, slot,
          recoveredFileCount, running, zombies, forked, arg, ret, workers,
          tmp_dir>>

\* the variables of the record decoders
entry_vars == <<entry, info, calculated_checksum, texts>>

\* the variables of the directory walk of the fork-per-file variant
walk_vars == <<dirs, clusterTypes, slot, recoveredFileCount, running, zombies,
               forked>>

\* the variables of the single function calls
call_vars == <<arg, ret>>

\* the variables of the concurrent workers
worker_vars == <<workers, tmp_dir>>

\* their values where the decoders and the walk do not run
EntryIdle ==
    /\ entry = <<>>
    /\ info = <<>>
    /\ calculated_checksum = 0
    /\ texts = <<>>

WalkIdle ==
    /\ dirs = <<>>
    /\ clusterTypes = <<>>
    /\ slot = 0
    /\ recoveredFileCount = 0
    /\ running = 0
    /\ zombies = 0
    /\ forked = <<>>

CallIdle ==
    /\ arg = <<>>
    /\ ret = <<>>

WorkerIdle ==
    /\ workers = <<>>
    /\ tmp_dir = <<>>

\* the variables of the resolver of the fork-per-file variant
resolve_vars == <<passes, file, tmp_file>>

\* the variables of the primary pipeline
main_vars == <<dents, p, bmp_files, idx, dir_exists, out_dir, report,
               munmaps, exit_status>>

-----------------------------------------------------------------------------
(* Bounds of the model *)

\* width of the scaled-down uint32_t
WordBits == 12
\* number of 16-byte stride positions (= sectors) of the data region
NPos == 6

U32 == 2 ^ WordBits
u32(x) == x % U32

Min(a, b) == IF a < b THEN a ELSE b

-----------------------------------------------------------------------------
(* Volume accessor: src/fsrecov/fsrecov.c *)

SIGNATURE == 43605   \* 0xaa55
\* const int step_size = 16: the stride of the raw scan.  The images drawn
\* have sectors of one stride, so that a handful of sectors is a volume.
step_size == 16
BytesPerSector == step_size
\* the values of BPB_SecPerClus of the images drawn
SpcValues == {1, 2, 4}

\* A boot sector, reduced to the fields the code reads.
Header(sig, bps, spc, rsvd, nfat, fatsz, tot) ==
    [Signature_word |-> sig, BPB_BytsPerSec |-> bps, BPB_SecPerClus |-> spc,
     BPB_RsvdSecCnt |-> rsvd, BPB_NumFATs |-> nfat, BPB_FATSz32 |-> fatsz,
     BPB_TotSec32 |-> tot]

\* map_disk: the checks between open() and the return of the mapping.
\* mmap of a zero-length file fails (EINVAL), which is the only place the
\* file length itself is looked at.  The product is unsigned 32-bit.
map_disk_accepts(h, size) ==
    /\ size > 0
    /\ ~ ( \/ h.Signature_word # SIGNATURE
           \/ u32(h.BPB_TotSec32 * h.BPB_BytsPerSec) # size )

\* hdr->BPB_RsvdSecCnt + hdr->BPB_NumFATs * hdr->BPB_FATSz32, as u32
data_sector_offset(h) ==
    u32(h.BPB_RsvdSecCnt + u32(h.BPB_NumFATs * h.BPB_FATSz32))

\* off_t image_size = hdr->BPB_TotSec32 * hdr->BPB_BytsPerSec
image_size(h) == u32(h.BPB_TotSec32 * h.BPB_BytsPerSec)

bytes_per_cluster(h) == u32(h.BPB_SecPerClus * h.BPB_BytsPerSec)

\* The pointer cluster_to_sec computes, as a byte offset from hdr.
cluster_ptr(h, cluster_num) ==
    LET cluster_offset_in_sectors == u32(u32(cluster_num - 2) * h.BPB_SecPerClus)
        target_sector == u32(data_sector_offset(h) + cluster_offset_in_sectors)
    IN  u32(target_sector * h.BPB_BytsPerSec)

NullPtr == [null |-> TRUE, off |-> 0, past_end |-> FALSE]

\* RecoveredFile of the fork-per-file variant, before a worker fills it
NoFile == [startCluster |-> 0, fileSize |-> 0, valid |-> FALSE,
           clusters |-> <<>>, clusterCount |-> 0,
           contiguous |-> TRUE, found |-> 0, gave_up |-> FALSE, probes |-> {},
           written |-> {}, loop_heads |-> {}]

\* cluster_to_sec with its boundary check left out.
cluster_to_sec_unchecked(h, cluster_num) ==
    [null |-> FALSE, off |-> cluster_ptr(h, cluster_num), past_end |-> FALSE]

\* cluster_to_sec: NULL when the pointer is at or after image_end; a cluster
\* that starts inside the image and ends after it is logged and returned.
cluster_to_sec(h, cluster_num) ==
    LET ptr == cluster_ptr(h, cluster_num)
    IN  IF ptr < 0 \/ ptr >= image_size(h)
        THEN NullPtr
        ELSE [null |-> FALSE, off |-> ptr,
              past_end |-> ptr + bytes_per_cluster(h) > image_size(h)]

\* read_all_dents, lines 367-370: the highest valid cluster number.
max_valid_cluster_num(h) ==
    LET num_data_sectors == u32(h.BPB_TotSec32 - data_sector_offset(h))
        total_data_clusters == num_data_sectors \div h.BPB_SecPerClus
    IN  u32(total_data_clusters + 1)

-----------------------------------------------------------------------------
(* SpecVolume: cluster_to_sec applied to every u32 cluster number, on the   *)
(* mapped image of every volume geometry drawn.                             *)

\* Images map_disk accepts: reserved sector, one FAT of one sector, d data
\* sectors; the file is as long as the header says.
VolumeHeaders ==
    { Header(SIGNATURE, BytesPerSector, spc, 1, 1, 1, 2 + d) :
        spc \in SpcValues, d \in 1..(NPos + 1) }

InitVolume ==
    /\ pc = "cts_call"
    /\ hdr \in VolumeHeaders
    /\ fsize = hdr.BPB_TotSec32 * hdr.BPB_BytsPerSec
    /\ map_disk_accepts(hdr, fsize)
    /\ cts_arg \in 0..(U32 - 1)
    /\ cts_ret = NullPtr
    /\ dents = <<>>
    /\ p = 0
    /\ bmp_files = <<>>
    /\ idx = 0
    /\ dir_exists = FALSE
    /\ out_dir = {}
    /\ report = {}
    /\ munmaps = 0
    /\ exit_status = 0
    /\ passes = {}
    /\ file = NoFile
    /\ tmp_file = <<>>
    /\ EntryIdle
    /\ WalkIdle
    /\ CallIdle
    /\ WorkerIdle

ClusterToSec ==
    /\ pc = "cts_call"
    /\ cts_ret' = cluster_to_sec(hdr, cts_arg)
    /\ pc' = "cts_done"
    /\ UNCHANGED <<hdr, fsize, cts_arg>>
    /\ UNCHANGED main_vars
    /\ UNCHANGED resolve_vars
    /\ UNCHANGED entry_vars
    /\ UNCHANGED walk_vars
    /\ UNCHANGED call_vars
    /\ UNCHANGED worker_vars

NextVolume == ClusterToSec

SpecVolume == InitVolume /\ [][NextVolume]_vars

\* The bytes [offset, offset + cluster_size) of cluster c, with
\* offset = data_region_start + (c - 2) * cluster_size in unbounded
\* arithmetic, lie inside the mapped file.
ClusterInsideImage(h, size, c) ==
    LET cs == h.BPB_SecPerClus * h.BPB_BytsPerSec
        off == (h.BPB_RsvdSecCnt + h.BPB_NumFATs * h.BPB_FATSz32) * h.BPB_BytsPerSec
               + (c - 2) * cs
    IN  0 <= off /\ off + cs <= size

C3_PartialClusterIsNull ==
    (pc = "cts_done" /\ ~ ClusterInsideImage(hdr, fsize, cts_arg))
        => cts_ret.null

-----------------------------------------------------------------------------
(* Directory records and the raw stride scan: src/fsrecov/fsrecov.c        *)

ATTR_ARCHIVE == 32      \* 0x20
ATTR_LONG_NAME == 15    \* 0x0F
\* char full_name[64]: positions 0..62 take name bytes
FullNameMax == 63
MAX_FILE == 256

\* What the 32 bytes at one stride position decode to.  Read as a
\* struct fat32dent: DIR_Name (11 bytes), DIR_Attr, the first cluster
\* (DIR_FstClusHI << 16 | DIR_FstClusLO) and DIR_FileSize.  Read as a
\* struct lfn_entry: LDIR_Ord, LDIR_Chksum and the 5 + 6 + 2 name units.
View(name, attr, clus, size, ord, chk, n1, n2, n3) ==
    [DIR_Name |-> name, DIR_Attr |-> attr, FstClus |-> clus,
     DIR_FileSize |-> size, LDIR_Ord |-> ord, LDIR_Chksum |-> chk,
     LDIR_Name1 |-> n1, LDIR_Name2 |-> n2, LDIR_Name3 |-> n3]

Pad(n) == [k \in 1..n |-> 65535]

\* calculate_lfn_checksum with the bit shifted out dropped (a shift in
\* place of the rotation)
calculate_lfn_checksum_shift(short_name_bytes) ==
    LET RECURSIVE sum(_)
        sum(k) == IF k = 0 THEN 0
                  ELSE ((sum(k - 1) \div 2) + short_name_bytes[k]) % 256
    IN  sum(11)

\* calculate_lfn_checksum (teest.c): 8-bit rotate right, add the byte
calculate_lfn_checksum(short_name_bytes) ==
    LET RECURSIVE sum(_)
        sum(k) == IF k = 0 THEN 0
                  ELSE LET s == sum(k - 1)
                       IN  ((s % 2) * 128 + (s \div 2) + short_name_bytes[k]) % 256
    IN  sum(11)

\* "0M15CW~1BMP", the short entry of the sample dump in teest.c
NameLive == <<48, 77, 49, 53, 67, 87, 126, 49, 66, 77, 80>>
\* the same entry deleted: first byte 0xE5
NameDeleted == <<229, 77, 49, 53, 67, 87, 126, 49, 66, 77, 80>>
NameOther == <<65, 32, 32, 32, 32, 32, 32, 32, 84, 88, 84>>

ShortView(name, clus, size) ==
    View(name, ATTR_ARCHIVE, clus, size, 0, 0, Pad(5), Pad(6), Pad(2))
LfnView(ord, chk, n1, n2, n3) ==
    View(NameOther, ATTR_LONG_NAME, 0, 0, ord, chk, n1, n2, n3)

\* no BMP extension, not a long-name record
OtherView == View(NameOther, ATTR_ARCHIVE, 0, 0, 0, 0, Pad(5), Pad(6), Pad(2))
\* sequence number 1, text "0M15C"
LfnFirst ==
    LfnView(1, calculate_lfn_checksum(NameLive),
            <<48, 77, 49, 53, 67>>, <<0>> \o Pad(5), Pad(2))
\* sequence number 2, flagged last (0x40), text ".bmp"
LfnLast ==
    LfnView(66, calculate_lfn_checksum(NameLive),
            <<46, 98, 109, 112, 0>>, Pad(6), Pad(2))

\* the only fragment (sequence number 1, flagged last) of the name "a.bmp"
LfnSingle ==
    LfnView(65, calculate_lfn_checksum(NameLive),
            <<97, 46, 98, 109, 112>>, <<0>> \o Pad(5), Pad(2))

\* the only fragment of a name whose first unit is U+00E9, followed by ".bmp"
LfnAccent ==
    LfnView(65, calculate_lfn_checksum(NameLive),
            <<233, 46, 98, 109, 112>>, <<0>> \o Pad(5), Pad(2))

\* The record views at the entry-aligned (even) stride positions: no entry,
\* the long-name fragments, and BMP short entries with a first cluster
\* below the valid range, a zero size, a file of 48 bytes, a file of 100
\* bytes, which is longer than the clusters left in the data region, and a
\* deleted file of 20 bytes.
EvenViews ==
    { OtherView, LfnFirst, LfnLast, LfnSingle, LfnAccent,
      ShortView(NameLive, 1, 20),
      ShortView(NameLive, 2, 0),
      ShortView(NameLive, 2, 48),
      ShortView(NameLive, 2, 100),
      ShortView(NameDeleted, 3, 20) }

\* The record views at the odd stride positions, where the 32 bytes read
\* straddle two entries: no match, or bytes that happen to match, with a
\* first cluster after the last cluster of the volume.
OddViews == { OtherView, ShortView(NameLive, NPos + 2, 20) }

\* The data regions drawn: a view per stride position.  Of the odd
\* positions, the last one of the region is drawn from OddViews and the
\* others decode to no match.
DataRegions ==
    { [k \in 1..NPos |-> IF k % 2 = 1 THEN ev[(k + 1) \div 2]
                         ELSE IF k = NPos THEN od ELSE OtherView] :
        ev \in [1..((NPos + 1) \div 2) -> EvenViews],
        od \in OddViews }

\* The extension test of read_all_dents, refusing the deleted marker 0xE5.
is_bmp_dent_live(v) ==
    /\ v.DIR_Name[1] # 229
    /\ v.DIR_Name[9] = 66 /\ v.DIR_Name[10] = 77 /\ v.DIR_Name[11] = 80
    /\ v.DIR_Attr = 32

\* dent->DIR_Name[8..10] == "BMP" && dent->DIR_Name[11] == 0x20; the byte
\* after the 11 name bytes is DIR_Attr.
is_bmp_dent(v) ==
    /\ v.DIR_Name[9] = 66 /\ v.DIR_Name[10] = 77 /\ v.DIR_Name[11] = 80
    /\ v.DIR_Attr = 32

\* The name units of one long-name record that the primary scan keeps:
\* every unit that is neither 0x0000 nor 0xFFFF, reduced to its low byte.
lfn_kept_bytes(v) ==
    LET units == v.LDIR_Name1 \o v.LDIR_Name2 \o v.LDIR_Name3
        RECURSIVE keep(_)
        keep(k) == IF k > Len(units) THEN <<>>
                   ELSE IF units[k] # 0 /\ units[k] # 65535
                        THEN <<units[k] % 256>> \o keep(k + 1)
                        ELSE keep(k + 1)
    IN  keep(1)

\* The do-while of read_all_dents from the position q = p - 2 downwards, two
\* strides (one record) at a time: it stops without reading at q <= 0
\* (p1 <= data_area) and after the first record that is no long-name record.
\* The variant that also reads the record at data_area itself:
lfn_lookback_from_zero(ds, q) ==
    LET RECURSIVE back(_)
        back(k) == IF k < 0 THEN <<>>
                   ELSE IF ds[k + 1].DIR_Attr = ATTR_LONG_NAME
                        THEN lfn_kept_bytes(ds[k + 1]) \o back(k - 2)
                        ELSE <<>>
    IN  back(q)

lfn_lookback(ds, q) ==
    LET RECURSIVE back(_)
        back(k) == IF k <= 0 THEN <<>>
                   ELSE IF ds[k + 1].DIR_Attr = ATTR_LONG_NAME
                        THEN lfn_kept_bytes(ds[k + 1]) \o back(k - 2)
                        ELSE <<>>
    IN  back(q)

Take(sq, n) == SubSeq(sq, 1, Min(n, Len(sq)))

\* strdup: the bytes before the first NUL
strdup(sq) ==
    IF \E k \in 1..Len(sq) : sq[k] = 0
    THEN SubSeq(sq, 1, (CHOOSE k \in 1..Len(sq) :
                          sq[k] = 0 /\ \A j \in 1..(k - 1) : sq[j] # 0) - 1)
    ELSE sq

\* short_name[i] = DIR_Name[i] in 32..126 ? DIR_Name[i] : '?'
make_short_name(name) ==
    [k \in 1..11 |-> IF name[k] >= 32 /\ name[k] <= 126 THEN name[k] ELSE 63]

\* The range check of read_all_dents on the first cluster, left out.
cluster_in_range_always(h, first_cluster) == TRUE

cluster_in_range(h, first_cluster) ==
    ~ (first_cluster < 2 \/ first_cluster > max_valid_cluster_num(h))

\* One iteration of the scan loop at stride position q (0-based) reading
\* record view v: the candidates after it.  pos is not a field of
\* struct bmp_file: it records where the entry was found.
scan_position(h, ds, files, q) ==
    LET v == ds[q + 1]
        full_name == Take(lfn_lookback(ds, q - 2), FullNameMax)
    IN  IF ~ is_bmp_dent(v) \/ ~ cluster_in_range(h, v.FstClus)
        THEN files
        ELSE Append(files,
                    [short_name |-> make_short_name(v.DIR_Name),
                     has_full_name |-> Len(full_name) > 0,
                     full_name |-> strdup(full_name),
                     first_cluster |-> v.FstClus,
                     size |-> v.DIR_FileSize,
                     pos |-> q])

\* byte offsets, from hdr, of data_area and data_end
data_area_off(h) == u32(data_sector_offset(h) * h.BPB_BytsPerSec)
data_end_off(h) == u32(h.BPB_TotSec32 * h.BPB_BytsPerSec)

-----------------------------------------------------------------------------
(* Materialization: read_bmp_data, src/fsrecov/fsrecov.c                   *)

\* bytes_to_copy with the remainder of the last cluster forgotten
bytes_to_copy_full_cluster(size, bytes_copied, bpc) == bpc

\* bytes_to_copy = (size - bytes_copied < bytes_per_cluster)
\*                     ? (size - bytes_copied) : bytes_per_cluster
bytes_to_copy(size, bytes_copied, bpc) ==
    IF u32(size - bytes_copied) < bpc THEN u32(size - bytes_copied) ELSE bpc

\* read_bmp_data.  null: the function returned NULL.  chunks: the memcpy
\* calls in order, each the source cluster, its offset in the image and the
\* number of bytes copied.  bytes_copied: the bytes of the buffer that were
\* written; the buffer is malloc(size), so the other size - bytes_copied
\* bytes are uninitialized.  unmapped: the loop was left because
\* cluster_to_sec returned NULL.
read_bmp_data(h, first_cluster, size) ==
    LET bpc == bytes_per_cluster(h)
        clusters_needed == u32(size + bpc - 1) \div bpc
        RECURSIVE copy(_, _, _, _)
        copy(i, current_cluster, bytes_copied, chunks) ==
            IF i >= clusters_needed
            THEN [null |-> FALSE, chunks |-> chunks,
                  bytes_copied |-> bytes_copied, unmapped |-> FALSE]
            ELSE LET cluster_data == cluster_to_sec(h, current_cluster)
                     n == bytes_to_copy(size, bytes_copied, bpc)
                 IN  IF cluster_data.null
                     THEN [null |-> FALSE, chunks |-> chunks,
                           bytes_copied |-> bytes_copied, unmapped |-> TRUE]
                     ELSE copy(i + 1, u32(current_cluster + 1),
                               u32(bytes_copied + n),
                               Append(chunks, [cluster |-> current_cluster,
                                               off |-> cluster_data.off,
                                               n |-> n]))
    IN  IF size = 0
        THEN [null |-> TRUE, chunks |-> <<>>, bytes_copied |-> 0,
              unmapped |-> FALSE]
        ELSE copy(0, first_cluster, 0, <<>>)

\* Some memcpy of the result reads bytes after the end of the mapping.
reads_past_image(h, data) ==
    \E k \in 1..Len(data.chunks) :
        data.chunks[k].off + data.chunks[k].n > image_size(h)

-----------------------------------------------------------------------------
(* main of src/fsrecov/fsrecov.c                                           *)

\* bmp->full_name ? bmp->full_name : bmp->short_name
output_name(bmp) == IF bmp.has_full_name THEN bmp.full_name ELSE bmp.short_name

\* fopen(full_path, "wb") fails on the empty name (the path is the
\* directory) and on a name with a '/' (no such directory).
fopen_ok(name) == Len(name) > 0 /\ \A k \in 1..Len(name) : name[k] # 47

\* glob("recovered_bmp_files/*.bmp"), without GLOB_PERIOD: the star matches
\* no leading period
matches_glob(name) ==
    /\ Len(name) >= 4
    /\ name[1] # 46
    /\ SubSeq(name, Len(name) - 3, Len(name)) = <<46, 98, 109, 112>>

\* The images of the primary pipeline: the geometries of the cluster sizes,
\* a wrong signature, a file shorter than the header says, and a header
\* whose 32-bit product of sector count and sector size wraps around to the
\* file length.  Each has a reserved sector, one FAT sector and NPos data
\* sectors.
MainImages ==
    LET len == (2 + NPos) * BytesPerSector
    IN  { [h |-> Header(SIGNATURE, BytesPerSector, spc, 1, 1, 1, 2 + NPos),
           size |-> len] : spc \in SpcValues }
        \cup
        { [h |-> Header(0, BytesPerSector, 1, 1, 1, 1, 2 + NPos), size |-> len],
          [h |-> Header(SIGNATURE, BytesPerSector, 1, 1, 1, 1, 2 + NPos),
           size |-> len - BytesPerSector],
          [h |-> Header(SIGNATURE, BytesPerSector, 1, 1, 1, 1,
                        U32 \div BytesPerSector + 2 + NPos),
           size |-> len] }

Init ==
    /\ pc = "start"
    /\ \E img \in MainImages : hdr = img.h /\ fsize = img.size
    /\ dents \in DataRegions
    /\ cts_arg = 0
    /\ cts_ret = NullPtr
    /\ p = 0
    /\ bmp_files = <<>>
    /\ idx = 0
    /\ dir_exists = FALSE
    /\ out_dir = {}
    /\ report = {}
    /\ munmaps = 0
    /\ exit_status = 0
    /\ passes = {}
    /\ file = NoFile
    /\ tmp_file = <<>>
    /\ EntryIdle
    /\ WalkIdle
    /\ CallIdle
    /\ WorkerIdle

\* hdr = map_disk(argv[1]); if (!hdr) return EXIT_FAILURE
MapDisk ==
    /\ pc = "start"
    /\ IF map_disk_accepts(hdr, fsize)
       THEN pc' = "alloc" /\ UNCHANGED <<munmaps, exit_status>>
       ELSE /\ pc' = "exit"
            /\ exit_status' = 1
            /\ munmaps' = IF fsize > 0 THEN munmaps + 1 ELSE munmaps
    /\ UNCHANGED resolve_vars
    /\ UNCHANGED entry_vars
    /\ UNCHANGED walk_vars
    /\ UNCHANGED call_vars
    /\ UNCHANGED worker_vars
    /\ UNCHANGED <<hdr, fsize, cts_arg, cts_ret, dents, p, bmp_files, idx,
                   dir_exists, out_dir, report>>

\* bmp_files = malloc(MAX_FILE * sizeof(struct bmp_file)); on failure
\* cleanup_resources() and return EXIT_FAILURE
AllocBmpFiles ==
    /\ pc = "alloc"
    /\ \/ pc' = "scan" /\ UNCHANGED <<munmaps, exit_status>>
       \/ pc' = "exit" /\ munmaps' = munmaps + 1 /\ exit_status' = 1
    /\ UNCHANGED resolve_vars
    /\ UNCHANGED entry_vars
    /\ UNCHANGED walk_vars
    /\ UNCHANGED call_vars
    /\ UNCHANGED worker_vars
    /\ UNCHANGED <<hdr, fsize, cts_arg, cts_ret, dents, p, bmp_files, idx,
                   dir_exists, out_dir, report>>

\* the stride position p lies in [data_area, data_end)
InDataRegion(q) == data_area_off(hdr) + q * step_size < data_end_off(hdr)
\* the 32 bytes of the record at position q end after data_end
RecordPastEnd(q) == data_area_off(hdr) + q * step_size + 32 > data_end_off(hdr)

\* One iteration of the for loop of read_all_dents.
ScanStep ==
    /\ pc = "scan"
    /\ InDataRegion(p)
    /\ IF is_bmp_dent(dents[p + 1]) /\ Len(bmp_files) >= MAX_FILE
       THEN pc' = "recover" /\ UNCHANGED <<p, bmp_files>>
       ELSE /\ bmp_files' = scan_position(hdr, dents, bmp_files, p)
            /\ p' = p + 1
            /\ pc' = "scan"
    /\ UNCHANGED resolve_vars
    /\ UNCHANGED entry_vars
    /\ UNCHANGED walk_vars
    /\ UNCHANGED call_vars
    /\ UNCHANGED worker_vars
    /\ UNCHANGED <<hdr, fsize, cts_arg, cts_ret, dents, idx, dir_exists,
                   out_dir, report, munmaps, exit_status>>

\* The extension bytes of the last stride position lie inside the image, the
\* cluster and size fields of that record after its end: reading them is
\* undefined, and one outcome is the fault.
ScanFault ==
    /\ pc = "scan"
    /\ InDataRegion(p)
    /\ is_bmp_dent(dents[p + 1])
    /\ RecordPastEnd(p)
    /\ pc' = "exit"
    /\ exit_status' = 139
    /\ UNCHANGED resolve_vars
    /\ UNCHANGED entry_vars
    /\ UNCHANGED walk_vars
    /\ UNCHANGED call_vars
    /\ UNCHANGED worker_vars
    /\ UNCHANGED <<hdr, fsize, cts_arg, cts_ret, dents, p, bmp_files, idx,
                   dir_exists, out_dir, report, munmaps>>

\* the loop of read_all_dents ends at data_end
ScanDone ==
    /\ pc = "scan"
    /\ ~ InDataRegion(p)
    /\ pc' = "recover"
    /\ UNCHANGED resolve_vars
    /\ UNCHANGED entry_vars
    /\ UNCHANGED walk_vars
    /\ UNCHANGED call_vars
    /\ UNCHANGED worker_vars
    /\ UNCHANGED <<hdr, fsize, cts_arg, cts_ret, dents, p, bmp_files, idx,
                   dir_exists, out_dir, report, munmaps, exit_status>>

\* The file fwrite(bmp_data, 1, bmp->size, fp) leaves: nbytes bytes, of which
\* the first bytes_copied come from the chunks and the others from the
\* uninitialized rest of the buffer.  first_cluster, size and pos are those
\* of the candidate it was written for.
\* tail holds the value of the uninitialized bytes, read from the heap of
\* the run.
written_file(bmp, data, heap) ==
    [name |-> output_name(bmp), nbytes |-> bmp.size, chunks |-> data.chunks,
     bytes_copied |-> data.bytes_copied, first_cluster |-> bmp.first_cluster,
     size |-> bmp.size, pos |-> bmp.pos,
     tail |-> IF data.bytes_copied < bmp.size THEN <<heap>> ELSE <<>>]

\* the values drawn for the bytes malloc leaves in a buffer
HeapFills == {0, 165}

\* One iteration of the recovery loop of main: read_bmp_data, the check of
\* the output directory, and the write of the file.
RecoverStep ==
    /\ pc = "recover"
    /\ idx < Len(bmp_files)
    /\ LET bmp == bmp_files[idx + 1]
           bmp_data == read_bmp_data(hdr, bmp.first_cluster, bmp.size)
           mkdir_failed ==
               /\ ~ dir_exists
               /\ pc' = "exit"
               /\ exit_status' = 255
               /\ UNCHANGED <<idx, dir_exists, out_dir>>
           mkdir_ok ==
               /\ dir_exists' = TRUE
               /\ idx' = idx + 1
               /\ pc' = "recover"
               /\ \E heap \in HeapFills :
                    out_dir' =
                      IF ~ bmp_data.null /\ fopen_ok(output_name(bmp))
                      THEN { f \in out_dir : f.name # output_name(bmp) }
                           \cup { written_file(bmp, bmp_data, heap) }
                      ELSE out_dir
               /\ UNCHANGED exit_status
       IN  mkdir_ok \/ mkdir_failed
    /\ UNCHANGED resolve_vars
    /\ UNCHANGED entry_vars
    /\ UNCHANGED walk_vars
    /\ UNCHANGED call_vars
    /\ UNCHANGED worker_vars
    /\ UNCHANGED <<hdr, fsize, cts_arg, cts_ret, dents, p, bmp_files, report,
                   munmaps>>

\* A memcpy of read_bmp_data that reads after the end of the mapping is
\* undefined: the copy may return whatever bytes lie there (RecoverStep) or
\* fault.
RecoverFault ==
    /\ pc = "recover"
    /\ idx < Len(bmp_files)
    /\ reads_past_image(hdr, read_bmp_data(hdr, bmp_files[idx + 1].first_cluster,
                                           bmp_files[idx + 1].size))
    /\ pc' = "exit"
    /\ exit_status' = 139
    /\ UNCHANGED resolve_vars
    /\ UNCHANGED entry_vars
    /\ UNCHANGED walk_vars
    /\ UNCHANGED call_vars
    /\ UNCHANGED worker_vars
    /\ UNCHANGED <<hdr, fsize, cts_arg, cts_ret, dents, p, bmp_files, idx,
                   dir_exists, out_dir, report, munmaps>>

\* cleanup_resources(), then sha1sum over the glob of the output directory,
\* printed by the parent; return EXIT_SUCCESS.  When pipe() or fork() fails
\* nothing is printed and main returns EXIT_FAILURE.
CleanupAndReport ==
    /\ pc = "recover"
    /\ idx >= Len(bmp_files)
    /\ munmaps' = munmaps + 1
    /\ \/ /\ report' = { f.name : f \in { g \in out_dir : matches_glob(g.name) } }
          /\ exit_status' = 0
       \/ /\ report' = {}
          /\ exit_status' = 1
    /\ pc' = "exit"
    /\ UNCHANGED resolve_vars
    /\ UNCHANGED entry_vars
    /\ UNCHANGED walk_vars
    /\ UNCHANGED call_vars
    /\ UNCHANGED worker_vars
    /\ UNCHANGED <<hdr, fsize, cts_arg, cts_ret, dents, p, bmp_files, idx,
                   dir_exists, out_dir>>

Next ==
    \/ MapDisk
    \/ AllocBmpFiles
    \/ ScanStep
    \/ ScanFault
    \/ ScanDone
    \/ RecoverStep
    \/ RecoverFault
    \/ CleanupAndReport

Spec == Init /\ [][Next]_vars

-----------------------------------------------------------------------------
(* Cluster chain resolver: recover_file_data and calculate_sha1,           *)
(* src/.shadow/fsrecov/fsrecov.c                                           *)

SEARCH_RANGE == 100
\* most clusters a file drawn in SpecResolve needs
MaxClusters == 4

\* is_bmp_data(disk + clusterOffset, clusterSize): decided by the bytes of
\* the cluster; pass is the set of the clusters whose bytes pass.
is_bmp_data(pass, cluster) == cluster \in pass

\* uint32_t nextCluster = startCluster + i, off by one
nextCluster_skipping(startCluster, i) == u32(startCluster + i + 1)

\* uint32_t nextCluster = startCluster + i
nextCluster(startCluster, i) == u32(startCluster + i)

\* The first loop of recover_file_data: the index i at which it is left,
\* clustersNeeded when no cluster fails.  clusters[1 .. i-1] are assigned.
contiguous_until(startCluster, clustersNeeded, pass) ==
    LET RECURSIVE loop(_)
        loop(i) == IF i >= clustersNeeded THEN i
                   ELSE IF ~ is_bmp_data(pass, nextCluster(startCluster, i))
                        THEN i
                        ELSE loop(i + 1)
    IN  loop(1)

\* The inner for loop of the search, taking the cluster after currentCluster
\* without asking is_bmp_data.
search_offset_unchecked(currentCluster, pass) == 1

\* The inner for loop of the search: the first offset in 1..SEARCH_RANGE
\* whose cluster passes is_bmp_data, 0 when there is none (found == false).
search_offset(currentCluster, pass) ==
    LET hits == { offset \in 1..SEARCH_RANGE :
                    is_bmp_data(pass, u32(currentCluster + offset)) }
    IN  IF hits = {} THEN 0
        ELSE CHOOSE offset \in hits : \A o \in hits : offset <= o

\* recover_file_data.  clusters is the array file->clusters, slot i at
\* index i + 1; 0 stands for a slot malloc left unassigned.  contiguous,
\* found (the slots the search assigned) and gave_up are the locals of the
\* function; probes are the clusters whose bytes is_bmp_data was given;
\* written are the indices i of the assignments file->clusters[i] = ...;
\* loop_heads are the pairs <<currentIndex, remainingClusters>> at the
\* heads of the while loop of the search.
recover_file_data(startCluster, fileSize, clusterSize, pass) ==
    LET clustersNeeded == u32(fileSize + clusterSize - 1) \div clusterSize
        k == contiguous_until(startCluster, clustersNeeded, pass)
        contiguous == k >= clustersNeeded
        first == [i \in 1..clustersNeeded |->
                    IF i = 1 THEN startCluster
                    ELSE IF i - 1 < k THEN nextCluster(startCluster, i - 1)
                    ELSE 0]
        first_probes == { nextCluster(startCluster, i) :
                            i \in 1..Min(k, clustersNeeded - 1) }
        first_written == 0..(k - 1)
        RECURSIVE search(_, _, _, _, _, _, _)
        search(clusters, currentCluster, remainingClusters, currentIndex, probes,
               written, heads) ==
            IF ~ (remainingClusters > 0 /\ currentIndex < clustersNeeded)
            THEN [clusters |-> clusters, found |-> currentIndex,
                  gave_up |-> FALSE, probes |-> probes, written |-> written,
                  loop_heads |-> heads \cup {<<currentIndex, remainingClusters>>}]
            ELSE LET offset == search_offset(currentCluster, pass)
                     candidateCluster == u32(currentCluster + offset)
                 IN  IF offset = 0
                     THEN [clusters |->
                             [i \in 1..clustersNeeded |->
                                IF i - 1 >= currentIndex + 1
                                THEN u32(clusters[currentIndex + 1]
                                         + ((i - 1) - currentIndex))
                                ELSE clusters[i]],
                           found |-> currentIndex, gave_up |-> TRUE,
                           probes |-> probes \cup
                             { u32(currentCluster + o) : o \in 1..SEARCH_RANGE },
                           written |-> written \cup
                             (currentIndex + 1)..(clustersNeeded - 1),
                           loop_heads |->
                             heads \cup {<<currentIndex, remainingClusters>>}]
                     ELSE search([clusters EXCEPT ![currentIndex + 2] = candidateCluster],
                                 candidateCluster, remainingClusters - 1,
                                 currentIndex + 1,
                                 probes \cup
                                   { u32(currentCluster + o) : o \in 1..offset },
                                 written \cup {currentIndex + 1},
                                 heads \cup {<<currentIndex, remainingClusters>>})
        searched == search(first, startCluster, clustersNeeded - 1, 0, first_probes,
                           first_written \cup {0}, {})
    IN  IF ~ contiguous /\ clustersNeeded > 1
        THEN [startCluster |-> startCluster, fileSize |-> fileSize,
              valid |-> TRUE,
              clusters |-> searched.clusters, clusterCount |-> clustersNeeded,
              contiguous |-> FALSE, found |-> searched.found,
              gave_up |-> searched.gave_up, probes |-> searched.probes,
              written |-> searched.written, loop_heads |-> searched.loop_heads]
        ELSE [startCluster |-> startCluster, fileSize |-> fileSize,
              valid |-> TRUE,
              clusters |-> first, clusterCount |-> clustersNeeded,
              contiguous |-> TRUE, found |-> 0, gave_up |-> FALSE,
              probes |-> first_probes, written |-> first_written,
              loop_heads |-> {}]

\* calculate_sha1, the loop that writes the clusters to the temporary file:
\* the fwrite calls in order, each the cluster and the number of bytes.
sha1_writes(f, clusterSize) ==
    LET RECURSIVE write(_, _)
        write(i, remainingSize) ==
            IF ~ (i < f.clusterCount /\ remainingSize > 0) THEN <<>>
            ELSE LET bytesToWrite == IF remainingSize > clusterSize
                                     THEN clusterSize ELSE remainingSize
                 IN  <<[cluster |-> f.clusters[i + 1], n |-> bytesToWrite]>>
                     \o write(i + 1, u32(remainingSize - bytesToWrite))
    IN  write(0, f.fileSize)

\* The inputs of a worker: an image of one-sector clusters, short (NPos data
\* clusters) or long enough for two search windows; a start cluster that
\* main found valid and a BMP header; a file size of 1..MaxClusters
\* clusters, a whole number of clusters or 6 bytes less, or the largest
\* value DIR_FileSize can hold; and the clusters near the start cluster that
\* pass the content heuristic.
PassOffsets == {1, 2, 3, 7, SEARCH_RANGE, SEARCH_RANGE + 1}

InitResolve ==
    /\ pc = "resolve"
    /\ \E d \in {NPos, 2 * SEARCH_RANGE + NPos} :
          hdr = Header(SIGNATURE, BytesPerSector, 1, 1, 1, 1, 2 + d)
    /\ fsize = hdr.BPB_TotSec32 * hdr.BPB_BytsPerSec
    /\ \E s \in {2, 3}, n \in 1..MaxClusters, r \in {0, 6} :
          \/ file = [NoFile EXCEPT !.startCluster = s,
                                   !.fileSize = n * bytes_per_cluster(hdr) - r]
          \/ file = [NoFile EXCEPT !.startCluster = s, !.fileSize = U32 - 1]
    /\ \E offs \in SUBSET PassOffsets :
          passes = { file.startCluster + o : o \in offs }
    /\ tmp_file = <<>>
    /\ EntryIdle
    /\ WalkIdle
    /\ CallIdle
    /\ WorkerIdle
    /\ cts_arg = 0
    /\ cts_ret = NullPtr
    /\ dents = <<>>
    /\ p = 0
    /\ bmp_files = <<>>
    /\ idx = 0
    /\ dir_exists = FALSE
    /\ out_dir = {}
    /\ report = {}
    /\ munmaps = 0
    /\ exit_status = 0

\* the child of main: recover_file_data(startCluster, fileSize, ...)
\* For clustersNeeded = 0 the call is malloc(0), which returns NULL or a
\* block of no bytes.
RecoverFileData ==
    /\ pc = "resolve"
    /\ \/ file' = recover_file_data(file.startCluster, file.fileSize,
                                    bytes_per_cluster(hdr), passes)
       \/ /\ u32(file.fileSize + bytes_per_cluster(hdr) - 1)
               \div bytes_per_cluster(hdr) = 0
          /\ file' = [file EXCEPT !.valid = FALSE]
    /\ pc' = "sha1"
    /\ UNCHANGED <<hdr, fsize, cts_arg, cts_ret, passes, tmp_file>>
    /\ UNCHANGED entry_vars
    /\ UNCHANGED walk_vars
    /\ UNCHANGED call_vars
    /\ UNCHANGED worker_vars
    /\ UNCHANGED main_vars

\* is_bmp_data reads the bytes of its cluster without a bounds check: for a
\* cluster outside the mapping the read is undefined, and faults or returns
\* whatever lies there (RecoverFileData).
ResolveFault ==
    /\ pc = "resolve"
    /\ \E c \in recover_file_data(file.startCluster, file.fileSize,
                                  bytes_per_cluster(hdr), passes).probes :
          ~ ClusterInsideImage(hdr, fsize, c)
    /\ pc' = "exit"
    /\ exit_status' = 139
    /\ UNCHANGED <<hdr, fsize, cts_arg, cts_ret, passes, file, tmp_file>>
    /\ UNCHANGED entry_vars
    /\ UNCHANGED walk_vars
    /\ UNCHANGED call_vars
    /\ UNCHANGED worker_vars
    /\ UNCHANGED <<dents, p, bmp_files, idx, dir_exists, out_dir, report, munmaps>>

\* if (file.valid) calculate_sha1(&file, ...); exit(0)
CalculateSha1 ==
    /\ pc = "sha1"
    /\ IF file.valid
       THEN /\ tmp_file' = sha1_writes(file, bytes_per_cluster(hdr))
            /\ report' = { file.startCluster }
       ELSE UNCHANGED <<tmp_file, report>>
    /\ pc' = "exit"
    /\ exit_status' = 0
    /\ UNCHANGED <<hdr, fsize, cts_arg, cts_ret, passes, file>>
    /\ UNCHANGED entry_vars
    /\ UNCHANGED walk_vars
    /\ UNCHANGED call_vars
    /\ UNCHANGED worker_vars
    /\ UNCHANGED <<dents, p, bmp_files, idx, dir_exists, out_dir, munmaps>>

\* fwrite(disk + clusterOffset, ...) reads the cluster without a bounds
\* check as well.
Sha1Fault ==
    /\ pc = "sha1"
    /\ file.valid
    /\ \E k \in 1..Len(sha1_writes(file, bytes_per_cluster(hdr))) :
          ~ ClusterInsideImage(hdr, fsize,
                sha1_writes(file, bytes_per_cluster(hdr))[k].cluster)
    /\ pc' = "exit"
    /\ exit_status' = 139
    /\ UNCHANGED <<hdr, fsize, cts_arg, cts_ret, passes, file, tmp_file>>
    /\ UNCHANGED entry_vars
    /\ UNCHANGED walk_vars
    /\ UNCHANGED call_vars
    /\ UNCHANGED worker_vars
    /\ UNCHANGED <<dents, p, bmp_files, idx, dir_exists, out_dir, report, munmaps>>

NextResolve ==
    \/ RecoverFileData
    \/ ResolveFault
    \/ CalculateSha1
    \/ Sha1Fault

SpecResolve == InitResolve /\ [][NextResolve]_vars

-----------------------------------------------------------------------------
(* Claims on the resolver, checked under SpecResolve                       *)

\* ceil(fileSize / clusterSize) in unbounded arithmetic
ClustersToCover(size, clusterSize) == (size + clusterSize - 1) \div clusterSize

\* C5: for a candidate that needs three clusters whose clusters first + 1
\* and first + 2 pass the content heuristic (first has passed the header
\* check in main), recover_file_data returns the chain
\* <<first, first + 1, first + 2>> with the flag true.
C5_ContiguousChain ==
    ( /\ pc = "sha1"
      /\ ClustersToCover(file.fileSize, bytes_per_cluster(hdr)) = 3
      /\ {file.startCluster + 1, file.startCluster + 2} \subseteq passes )
    => ( /\ file.clusters = <<file.startCluster, file.startCluster + 1,
                              file.startCluster + 2>>
         /\ file.valid = TRUE )

C5_Witness ==
    /\ pc = "sha1"
    /\ ClustersToCover(file.fileSize, bytes_per_cluster(hdr)) = 3
    /\ {file.startCluster + 1, file.startCluster + 2} \subseteq passes
    /\ file.contiguous
    /\ Len(file.clusters) = 3

\* the first cluster within SEARCH_RANGE clusters after prev that passes
PassingInWindow(prev) ==
    { c \in (prev + 1)..(prev + SEARCH_RANGE) : c \in passes }
FirstPassingAfter(prev) ==
    CHOOSE c \in PassingInWindow(prev) : \A d \in PassingInWindow(prev) : c <= d

\* C6: when the contiguity check fails, the chain is the confirmed
\* contiguous prefix followed, slot after slot, by the first cluster within
\* 100 clusters after the previous chain element that passes the heuristic,
\* for as long as there is one; when first + 1 fails and first + 7 is the
\* first to pass, the second element is first + 7 and first + 1 is not in
\* the chain.
C6_FallbackSearch ==
    (pc = "sha1" /\ ~ file.contiguous)
    => LET s == file.startCluster
           n == ClustersToCover(file.fileSize, bytes_per_cluster(hdr))
       IN  /\ Len(file.clusters) = n
           /\ file.clusters[1] = s
           /\ \A j \in 1..(n - 1) :
                (\A i \in 1..j : s + i \in passes) => file.clusters[j + 1] = s + j
           /\ \A j \in 2..n :
                IF PassingInWindow(file.clusters[j - 1]) # {} /\ j <= file.found + 1
                THEN file.clusters[j] = FirstPassingAfter(file.clusters[j - 1])
                ELSE j > file.found + 1
           /\ file.found < n - 1
                => PassingInWindow(file.clusters[file.found + 1]) = {}
           /\ ( /\ s + 7 \in passes
                /\ \A o \in 1..6 : s + o \notin passes )
              => /\ file.clusters[2] = s + 7
                 /\ \A j \in 1..n : file.clusters[j] # s + 1

C6_Witness ==
    /\ pc = "sha1"
    /\ ~ file.contiguous
    /\ file.startCluster + 7 \in passes
    /\ \A o \in 1..6 : file.startCluster + o \notin passes
    /\ Len(file.clusters) >= 3
    /\ file.clusters[2] = file.startCluster + 7
    /\ file.found = Len(file.clusters) - 1

\* C7: when no cluster in the window after the last confirmed cluster
\* passes, every remaining slot holds last + 1, last + 2, ..., and the flag
\* of the chain differs from the flag of a chain that resolved cleanly.
C7_GiveUpIsFlagged ==
    (pc = "sha1" /\ file.gave_up)
    => LET last == file.clusters[file.found + 1]
           clean == recover_file_data(
                        file.startCluster, file.fileSize, bytes_per_cluster(hdr),
                        { file.startCluster + i : i \in 1..MaxClusters })
       IN  /\ \A j \in (file.found + 2)..Len(file.clusters) :
                file.clusters[j] = last + (j - (file.found + 1))
           /\ file.valid # clean.valid

\* the part of C7 the code keeps: the fill of the remaining slots
C7_GiveUpFill ==
    (pc = "sha1" /\ file.gave_up)
    => /\ PassingInWindow(file.clusters[file.found + 1]) = {}
       /\ \A j \in (file.found + 2)..Len(file.clusters) :
            file.clusters[j] = file.clusters[file.found + 1] + (j - (file.found + 1))

-----------------------------------------------------------------------------
(* Claims on the primary pipeline, checked under Spec                      *)

\* (total_sectors - data_start_sector) / sectors_per_cluster + 1, in
\* unbounded arithmetic
MaxValidCluster(h) ==
    (h.BPB_TotSec32 - (h.BPB_RsvdSecCnt + h.BPB_NumFATs * h.BPB_FATSz32))
        \div h.BPB_SecPerClus + 1

\* the entry pattern at a stride position names no recoverable file
InvalidCandidate(h, v) ==
    \/ v.FstClus < 2
    \/ v.FstClus > MaxValidCluster(h)
    \/ v.DIR_FileSize = 0

\* C1: a matching entry whose first cluster lies outside
\* [2, max_valid_cluster] or whose size is 0 never produces a file of the
\* output directory, and every report line names a file written for a
\* candidate that is not of that kind.
C1_InvalidCandidateNoOutput ==
    /\ \A q \in 0..(NPos - 1) :
         (is_bmp_dent(dents[q + 1]) /\ InvalidCandidate(hdr, dents[q + 1]))
         => \A f \in out_dir : f.pos # q
    /\ \A f \in out_dir : ~ InvalidCandidate(hdr, dents[f.pos + 1])
    /\ \A name \in report :
         \E f \in out_dir : f.name = name /\ f.size # 0
                            /\ f.first_cluster >= 2
                            /\ f.first_cluster <= MaxValidCluster(hdr)

C1_Witness ==
    /\ pc = "exit"
    /\ exit_status = 0
    /\ p = NPos
    /\ \E q \in 0..(NPos - 1) :
         is_bmp_dent(dents[q + 1]) /\ dents[q + 1].DIR_FileSize = 0
    /\ \E q \in 0..(NPos - 1) :
         is_bmp_dent(dents[q + 1]) /\ dents[q + 1].FstClus > MaxValidCluster(hdr)
    /\ \E f \in out_dir : f.name \in report

\* the volume the specification of map_disk admits
VolumeIsValid(h, size) ==
    /\ size > 0
    /\ h.Signature_word = SIGNATURE
    /\ h.BPB_BytsPerSec * h.BPB_TotSec32 = size

\* C4: map_disk accepts an image only when the signature word is 0xAA55 and
\* BPB_BytsPerSec * BPB_TotSec32 is the file length; otherwise nothing is
\* scanned, recovered or reported and the exit status is not zero.
C4_OnlyValidVolumeAccepted ==
    (pc # "start" /\ ~ VolumeIsValid(hdr, fsize))
    => /\ pc = "exit"
       /\ exit_status # 0
       /\ p = 0
       /\ bmp_files = <<>>
       /\ out_dir = {}
       /\ report = {}

\* the bytes of the first k memcpy calls
CopiedAfter(chunks, k) ==
    LET RECURSIVE sum(_)
        sum(j) == IF j = 0 THEN 0 ELSE sum(j - 1) + chunks[j].n
    IN  sum(k)

\* every cluster of the chain first, first + 1, ... of a file of declared
\* size bytes lies inside the image
ChainInsideImage(h, fs, first, size) ==
    \A k \in 0..(ClustersToCover(size, h.BPB_SecPerClus * h.BPB_BytsPerSec) - 1) :
        ClusterInsideImage(h, fs, first + k)

\* C8: when every cluster of the chain lies inside the image, the file
\* written holds exactly the declared size, copied in chain order: a full
\* cluster from every chain element but the last and the remainder
\* size - (n - 1) * cluster_size from the last; the running count of bytes
\* copied never exceeds the declared size.
C8_MaterializeExact ==
    \A f \in out_dir :
        LET cs == hdr.BPB_SecPerClus * hdr.BPB_BytsPerSec
            n == ClustersToCover(f.size, cs)
            start == (hdr.BPB_RsvdSecCnt + hdr.BPB_NumFATs * hdr.BPB_FATSz32)
                         * hdr.BPB_BytsPerSec
        IN  (f.size > 0 /\ ChainInsideImage(hdr, fsize, f.first_cluster, f.size))
            => /\ Len(f.chunks) = n
               /\ \A k \in 1..n :
                    /\ f.chunks[k].cluster = f.first_cluster + (k - 1)
                    /\ f.chunks[k].off = start + (f.chunks[k].cluster - 2) * cs
                    /\ f.chunks[k].n = IF k < n THEN cs ELSE f.size - (n - 1) * cs
                    /\ CopiedAfter(f.chunks, k) <= f.size
               /\ f.bytes_copied = f.size
               /\ f.nbytes = f.size

C8_Witness ==
    \E f \in out_dir :
        /\ ChainInsideImage(hdr, fsize, f.first_cluster, f.size)
        /\ Len(f.chunks) >= 2
        /\ f.chunks[Len(f.chunks)].n < bytes_per_cluster(hdr)
        /\ f.chunks[Len(f.chunks)].n > 0
        /\ f.bytes_copied = f.size

\* C9: when a cluster of the chain is not mapped by cluster_to_sec, the
\* copy stops there and the candidate is persisted with only the bytes
\* copied up to that cluster.
C9_UnmappedIsPartial ==
    \A i \in 1..idx :
        LET bmp == bmp_files[i]
            data == read_bmp_data(hdr, bmp.first_cluster, bmp.size)
        IN  (data.unmapped /\ fopen_ok(output_name(bmp)))
            => \E f \in out_dir :
                 /\ f.name = output_name(bmp)
                 /\ (f.pos = bmp.pos => f.nbytes = data.bytes_copied)

\* the long-name records immediately before stride position q, nearest
\* first: the records at q - 2, q - 4, ... down to the first slot of the
\* data region, up to the first that is no long-name record
LfnRunBefore(ds, q) ==
    LET RECURSIVE run(_)
        run(k) == IF k < 0 THEN <<>>
                  ELSE IF ds[k + 1].DIR_Attr = ATTR_LONG_NAME
                       THEN <<ds[k + 1]>> \o run(k - 2)
                       ELSE <<>>
    IN  run(q - 2)

\* sequence numbers 1, 2, ... from the short entry backwards, the last one
\* flagged 0x40, each with the checksum of the short name
WellFormedRun(run, short) ==
    /\ Len(run) >= 1
    /\ \A i \in 1..Len(run) :
         /\ run[i].LDIR_Ord % 64 = i
         /\ (run[i].LDIR_Ord >= 64) = (i = Len(run))
         /\ run[i].LDIR_Chksum = calculate_lfn_checksum(short.DIR_Name)

\* the text of one fragment: the units before the first 0x0000 or 0xFFFF
FragmentText(v) ==
    LET units == v.LDIR_Name1 \o v.LDIR_Name2 \o v.LDIR_Name3
        RECURSIVE text(_)
        text(k) == IF k > Len(units) \/ units[k] = 0 \/ units[k] = 65535
                   THEN <<>>
                   ELSE <<units[k] % 256>> \o text(k + 1)
    IN  text(1)

\* the texts of the fragments in ascending sequence-number order
LongNameOfRun(run) ==
    LET RECURSIVE cat(_)
        cat(i) == IF i > Len(run) THEN <<>> ELSE FragmentText(run[i]) \o cat(i + 1)
    IN  cat(1)

\* C10: every candidate whose entry is immediately preceded by a run of
\* well-formed long-name fragments, a run that begins at the first slot of
\* the data region included, carries as its long name the texts of the
\* fragments in ascending sequence-number order.
C10_LongNameFromRun ==
    \A i \in 1..Len(bmp_files) :
        LET b == bmp_files[i]
            run == LfnRunBefore(dents, b.pos)
        IN  WellFormedRun(run, dents[b.pos + 1])
            => /\ b.has_full_name
               /\ b.full_name = LongNameOfRun(run)

\* the part of C10 the scan keeps: a well-formed run that begins after the
\* first slot of the data region
C10_LongNameFromRunAfterFirstSlot ==
    \A i \in 1..Len(bmp_files) :
        LET b == bmp_files[i]
            run == LfnRunBefore(dents, b.pos)
        IN  (WellFormedRun(run, dents[b.pos + 1]) /\ b.pos - 2 * Len(run) > 0)
            => /\ b.has_full_name
               /\ b.full_name = LongNameOfRun(run)

\* C11: when the checksum recomputed from the 11 raw name bytes of the short
\* entry differs from the checksum stored in a long-name fragment of the run
\* before it, the name used for the candidate is the short name.
C11_MismatchUsesShortName ==
    \A i \in 1..Len(bmp_files) :
        LET b == bmp_files[i]
            run == LfnRunBefore(dents, b.pos)
        IN  (\E k \in 1..Len(run) :
                run[k].LDIR_Chksum # calculate_lfn_checksum(dents[b.pos + 1].DIR_Name))
            => output_name(b) = b.short_name

\* a deleted short entry with the extension BMP, a first cluster in range
\* and a size that is not 0
DeletedValidEntry(h, v) ==
    /\ v.DIR_Name[1] = 229
    /\ v.DIR_Name[9] = 66 /\ v.DIR_Name[10] = 77 /\ v.DIR_Name[11] = 80
    /\ v.DIR_Attr = ATTR_ARCHIVE
    /\ ~ InvalidCandidate(h, v)

C17_OutputsDeduplicated ==
    \A f, g \in out_dir :
        (f.first_cluster = g.first_cluster /\ f.size = g.size) => f = g

\* C20: after a successful map_disk the mapping has been unmapped exactly
\* once when main returns, on normal completion (0), on the failure of the
\* metadata allocation (1) and on the failure to create the output
\* directory (255).
C20_UnmappedExactlyOnce ==
    (pc = "exit" /\ map_disk_accepts(hdr, fsize) /\ exit_status \in {0, 1, 255})
    => munmaps = 1

-----------------------------------------------------------------------------
(* Record decoders: parse_single_entry, calculate_lfn_checksum and the     *)
(* three long-name text decoders, applied to one 32-byte record            *)

\* the two bytes of a 16-bit unit, little endian
LE16(x) == <<x % 256, x \div 256>>

\* the 16-bit unit at byte offset off of record e
U16At(e, off) == e[off + 1] + 256 * e[off + 2]

\* the bytes of a long-name record with 13 name units
RawLfn(ord, chk, units) ==
    <<ord>>
    \o LE16(units[1]) \o LE16(units[2]) \o LE16(units[3]) \o LE16(units[4])
    \o LE16(units[5])
    \o <<ATTR_LONG_NAME, 0, chk>>
    \o LE16(units[6]) \o LE16(units[7]) \o LE16(units[8]) \o LE16(units[9])
    \o LE16(units[10]) \o LE16(units[11])
    \o <<0, 0>>
    \o LE16(units[12]) \o LE16(units[13])

\* the bytes of a short record
RawShort(name, attr, clus, size) ==
    name \o <<attr>> \o <<0, 0, 0, 0, 0, 0, 0, 0>>
    \o LE16(clus \div 65536) \o <<0, 0, 0, 0>> \o LE16(clus % 65536)
    \o LE16(size % 65536) \o LE16(size \div 65536)

\* const unsigned char directory_dump[] of teest.c
directory_dump ==
    << 66, 80, 0, 67, 0, 112, 0, 46, 0, 98, 0, 15, 137, 109, 0, 112,
       0, 0, 0, 255, 255, 255, 255, 255, 255, 255, 255, 255, 255, 255, 255, 255,
       1, 48, 0, 77, 0, 49, 0, 53, 0, 67, 0, 15, 137, 119, 0, 71,
       0, 49, 0, 121, 0, 80, 0, 51, 0, 0, 0, 50, 0, 85, 0, 0,
       48, 77, 49, 53, 67, 87, 126, 49, 66, 77, 80, 32, 0, 100, 43, 90,
       172, 80, 172, 80, 0, 0, 43, 90, 172, 80, 105, 21, 54, 119, 7, 0 >>

\* memset(info, 0, sizeof(ParsedEntryInfo)); ENTRY_TYPE_FREE is 0
ZeroInfo ==
    [type |-> "ENTRY_TYPE_FREE", attributes |-> 0, lfn_sequence |-> 0,
     lfn_checksum |-> 0, lfn_name1 |-> <<0, 0, 0, 0, 0>>,
     lfn_name2 |-> <<0, 0, 0, 0, 0, 0>>, lfn_name3 |-> <<0, 0>>,
     short_name |-> <<0, 0, 0, 0, 0, 0, 0, 0, 0, 0, 0, 0>>,
     first_cluster_low |-> 0, first_cluster_high |-> 0, file_size |-> 0]

\* attributes & bit, for a one-bit mask
HasBit(attributes, bit) == (attributes \div bit) % 2 = 1

FAT32_ATTR_VOLUME_ID == 8
FAT32_ATTR_DIRECTORY == 16

\* parse_single_entry from info->attributes = entry_data[0x0B] on
parse_by_attributes(entry_data) ==
    LET attributes == entry_data[12]
    IN  IF attributes = ATTR_LONG_NAME
        THEN [ZeroInfo EXCEPT
                !.type = "ENTRY_TYPE_LFN",
                !.attributes = attributes,
                !.lfn_sequence = entry_data[1],
                !.lfn_checksum = entry_data[14],
                !.lfn_name1 = [k \in 1..5 |-> U16At(entry_data, 1 + 2 * (k - 1))],
                !.lfn_name2 = [k \in 1..6 |-> U16At(entry_data, 14 + 2 * (k - 1))],
                !.lfn_name3 = [k \in 1..2 |-> U16At(entry_data, 28 + 2 * (k - 1))]]
        ELSE IF ~ HasBit(attributes, FAT32_ATTR_VOLUME_ID)
        THEN [ZeroInfo EXCEPT
                !.type = IF HasBit(attributes, FAT32_ATTR_DIRECTORY)
                         THEN "ENTRY_TYPE_DIRECTORY" ELSE "ENTRY_TYPE_SHORT",
                !.attributes = attributes,
                !.short_name = SubSeq(entry_data, 1, 11) \o <<0>>,
                !.first_cluster_high = U16At(entry_data, 20),
                !.first_cluster_low = U16At(entry_data, 26),
                !.file_size = U16At(entry_data, 28) + 65536 * U16At(entry_data, 30)]
        ELSE [ZeroInfo EXCEPT !.type = "ENTRY_TYPE_UNKNOWN",
                              !.attributes = attributes]

\* parse_single_entry testing the long-name attribute before the first byte
parse_single_entry_attr_first(entry_data) ==
    IF entry_data[12] = ATTR_LONG_NAME
    THEN parse_by_attributes(entry_data)
    ELSE IF entry_data[1] = 229
    THEN [ZeroInfo EXCEPT !.type = "ENTRY_TYPE_DELETED"]
    ELSE IF entry_data[1] = 0
    THEN [ZeroInfo EXCEPT !.type = "ENTRY_TYPE_FREE"]
    ELSE parse_by_attributes(entry_data)

\* parse_single_entry
parse_single_entry(entry_data) ==
    IF entry_data[1] = 229
    THEN [ZeroInfo EXCEPT !.type = "ENTRY_TYPE_DELETED"]
    ELSE IF entry_data[1] = 0
    THEN [ZeroInfo EXCEPT !.type = "ENTRY_TYPE_FREE"]
    ELSE parse_by_attributes(entry_data)

\* utf16le_to_printable_ascii
utf16le_to_printable_ascii(utf16_char) ==
    IF (utf16_char >= 32 /\ utf16_char <= 126) \/ utf16_char = 95 \/ utf16_char = 45
    THEN utf16_char
    ELSE 63

\* the units one parsed fragment adds to full_utf16_name: the loops over
\* lfn_name1, lfn_name2 and lfn_name3 leave for end_lfn_copy_this_entry at
\* the first 0x0000 or 0xFFFF
lfn_units_until_terminator(lfn) ==
    LET units == lfn.lfn_name1 \o lfn.lfn_name2 \o lfn.lfn_name3
        RECURSIVE copy(_)
        copy(j) == IF j > Len(units) \/ units[j] = 0 \/ units[j] = 65535
                   THEN <<>>
                   ELSE <<units[j]>> \o copy(j + 1)
    IN  copy(1)

\* short_entry->short_name as a C string
c_string(bytes) == strdup(bytes)

\* reconstruct_lfn_from_sequence with a buffer of 260 bytes: the name left
\* in long_filename_buffer and the diagnostic printed about the checksum
reconstruct_lfn_from_sequence(lfn_entries, short_entry) ==
    IF Len(lfn_entries) = 0 \/ short_entry.type # "ENTRY_TYPE_SHORT"
    THEN [name |-> [k \in 1..Len(c_string(short_entry.short_name)) |->
                       IF c_string(short_entry.short_name)[k] = 32
                       THEN 95 ELSE c_string(short_entry.short_name)[k]],
          diag |-> "none"]
    ELSE LET calculated == calculate_lfn_checksum(short_entry.short_name)
             seq1 == { i \in 1..Len(lfn_entries) :
                         lfn_entries[i].lfn_sequence
                           - (IF HasBit(lfn_entries[i].lfn_sequence, 64)
                              THEN 64 ELSE 0) = 1 }
             found_seq1 == seq1 # {}
             expected_checksum ==
                 lfn_entries[CHOOSE i \in seq1 : \A j \in seq1 : i <= j].lfn_checksum
             RECURSIVE full(_)
             full(i) == IF i > Len(lfn_entries) THEN <<>>
                        ELSE lfn_units_until_terminator(lfn_entries[i]) \o full(i + 1)
             full_utf16_name == full(1)
         IN  [name |-> [k \in 1..Min(Len(full_utf16_name), 259) |->
                           utf16le_to_printable_ascii(full_utf16_name[k])],
              diag |-> IF found_seq1 /\ calculated # expected_checksum
                       THEN "Checksum mismatch"
                       ELSE IF ~ found_seq1 THEN "no sequence 1" ELSE "none"]

\* the record behind a struct lfn_entry pointer of the scanners
LfnViewOf(e) ==
    View(SubSeq(e, 1, 11), e[12], 0, 0, e[1], e[14],
         [k \in 1..5 |-> U16At(e, 1 + 2 * (k - 1))],
         [k \in 1..6 |-> U16At(e, 14 + 2 * (k - 1))],
         [k \in 1..2 |-> U16At(e, 28 + 2 * (k - 1))])

\* extract_long_filename: the entries from index count - 1 down to 0; each
\* of the three loops of an entry breaks at its own first 0x0000 or 0xFFFF
extract_long_filename(lfn_entries) ==
    LET RECURSIVE part(_, _)
        part(units, j) == IF j > Len(units) \/ units[j] = 0 \/ units[j] = 65535
                          THEN <<>>
                          ELSE <<units[j] % 256>> \o part(units, j + 1)
        RECURSIVE from(_)
        from(i) == IF i < 1 THEN <<>>
                   ELSE part(lfn_entries[i].LDIR_Name1, 1)
                        \o part(lfn_entries[i].LDIR_Name2, 1)
                        \o part(lfn_entries[i].LDIR_Name3, 1)
                        \o from(i - 1)
    IN  from(Len(lfn_entries))

\* The name units of the records drawn: t name units 'a', 'b', ..., then
\* the terminator term, then 0xFFFF padding, except for one unit 'x' at
\* index g when g is not 0.
UnitPattern(t, term, g) ==
    [k \in 1..13 |-> IF k <= t THEN 96 + k
                     ELSE IF k = t + 1 THEN term
                     ELSE IF k = g THEN 120
                     ELSE 65535]

\* The records drawn: the three records of directory_dump, short records
\* over first bytes and attribute bytes, and long-name records over first
\* bytes and unit patterns.
EntryRecords ==
    { SubSeq(directory_dump, 32 * i + 1, 32 * i + 32) : i \in 0..2 }
    \cup
    { RawShort(name, attr, cs[1], cs[2]) :
        name \in { NameLive, NameDeleted, NameOther, <<0>> \o SubSeq(NameLive, 2, 11) },
        attr \in { 0, 1, 8, 16, 22, 32, 40 },
        cs \in { <<2, 48>>, <<70000, 300>> } }
    \cup
    { RawLfn(ord, calculate_lfn_checksum(NameLive), UnitPattern(t, term, g)) :
        ord \in { 0, 1, 65, 229 },
        t \in 0..13, term \in { 0, 65535 }, g \in { 0, 3, 6, 7, 12, 13 } }

\* the short entry the decoded fragment is reconstructed against
dump_short_entry == parse_single_entry(SubSeq(directory_dump, 65, 96))

InitEntry ==
    /\ pc = "entry"
    /\ entry \in EntryRecords
    /\ info = <<>>
    /\ calculated_checksum = 0
    /\ texts = <<>>
    /\ hdr = Header(SIGNATURE, BytesPerSector, 1, 1, 1, 1, 2 + NPos)
    /\ fsize = hdr.BPB_TotSec32 * hdr.BPB_BytsPerSec
    /\ cts_arg = 0
    /\ cts_ret = NullPtr
    /\ dents = <<>>
    /\ p = 0
    /\ bmp_files = <<>>
    /\ idx = 0
    /\ dir_exists = FALSE
    /\ out_dir = {}
    /\ report = {}
    /\ munmaps = 0
    /\ exit_status = 0
    /\ passes = {}
    /\ file = NoFile
    /\ tmp_file = <<>>
    /\ WalkIdle
    /\ CallIdle
    /\ WorkerIdle

EntryFrame ==
    /\ UNCHANGED <<hdr, fsize, cts_arg, cts_ret, entry>>
    /\ UNCHANGED main_vars
    /\ UNCHANGED resolve_vars
    /\ UNCHANGED walk_vars
    /\ UNCHANGED call_vars
    /\ UNCHANGED worker_vars

\* parse_single_entry(current_entry_data, &entry_info[i])
ParseSingleEntry ==
    /\ pc = "entry"
    /\ info' = parse_single_entry(entry)
    /\ pc' = "parsed"
    /\ UNCHANGED <<calculated_checksum, texts>>
    /\ EntryFrame

\* calculate_lfn_checksum over the first 11 bytes of the record
CalculateLfnChecksum ==
    /\ pc = "parsed"
    /\ calculated_checksum' = calculate_lfn_checksum(SubSeq(entry, 1, 11))
    /\ pc' = "summed"
    /\ UNCHANGED <<info, texts>>
    /\ EntryFrame

\* The name text of a record whose attribute byte is ATTR_LONG_NAME, as
\* the raw scan, extract_long_filename and reconstruct_lfn_from_sequence
\* decode it.
DecodeLfnText ==
    /\ pc = "summed"
    /\ info.type = "ENTRY_TYPE_LFN"
    /\ texts' = [primary |-> lfn_kept_bytes(LfnViewOf(entry)),
                 shadow |-> extract_long_filename(<<LfnViewOf(entry)>>),
                 teest |-> reconstruct_lfn_from_sequence(<<info>>, dump_short_entry)]
    /\ pc' = "decoded"
    /\ UNCHANGED <<info, calculated_checksum>>
    /\ EntryFrame

NextEntry ==
    \/ ParseSingleEntry
    \/ CalculateLfnChecksum
    \/ DecodeLfnText

SpecEntry == InitEntry /\ [][NextEntry]_vars

-----------------------------------------------------------------------------
(* Claims on the record decoders, checked under SpecEntry                  *)

\* the units of a record before its first unit that is 0x0000 or 0xFFFF
UnitsBeforeTerminator(e) ==
    LET units == LfnViewOf(e).LDIR_Name1 \o LfnViewOf(e).LDIR_Name2
                 \o LfnViewOf(e).LDIR_Name3
        RECURSIVE upto(_)
        upto(k) == IF k > Len(units) \/ units[k] = 0 \/ units[k] = 65535
                   THEN <<>>
                   ELSE <<units[k]>> \o upto(k + 1)
    IN  upto(1)

\* C12: the text decoded from one long-name fragment is its units in the
\* order Name1, Name2, Name3 up to the first unit that is 0x0000 or 0xFFFF,
\* each unit as the character the decoder makes of it; no unit after that
\* terminator is in the text, in any of the three decoders.
C12_TextTruncatedAtTerminator ==
    pc = "decoded"
    => LET units == UnitsBeforeTerminator(entry)
           low == [k \in 1..Len(units) |-> units[k] % 256]
       IN  /\ texts.primary = low
           /\ texts.shadow = low
           /\ texts.teest.name =
                [k \in 1..Len(units) |-> utf16le_to_printable_ascii(units[k])]

\* the part of C12 that holds: the decoder of reconstruct_lfn_from_sequence
C12_ReconstructTruncates ==
    pc = "decoded"
    => texts.teest.name =
         [k \in 1..Len(UnitsBeforeTerminator(entry)) |->
            utf16le_to_printable_ascii(UnitsBeforeTerminator(entry)[k])]

\* the 8 bits of a byte, least significant first
Bits8(x) == [k \in 0..7 |-> (x \div (2 ^ k)) % 2]

\* the byte with the given bits
ByteOf(bits) ==
    bits[0] + 2 * bits[1] + 4 * bits[2] + 8 * bits[3] + 16 * bits[4]
    + 32 * bits[5] + 64 * bits[6] + 128 * bits[7]

\* rotation of a byte by one bit to the right: bit k + 1 moves to bit k and
\* bit 0 to bit 7
RotateRight8(x) == ByteOf([k \in 0..7 |-> Bits8(x)[(k + 1) % 8]])

\* the FAT long-name checksum of the first n bytes
StandardChecksum(bytes, n) ==
    LET RECURSIVE acc(_)
        acc(k) == IF k = 0 THEN 0
                  ELSE (RotateRight8(acc(k - 1)) + bytes[k]) % 256
    IN  acc(n)

\* C13: calculate_lfn_checksum over 11 bytes is the FAT long-name checksum:
\* from 0, for each byte b in order, sum = rotate_right_8(sum, 1) + b modulo
\* 256; the result is in 0..255.  For "0M15CW~1BMP" it is 0x89, the byte
\* directory_dump stores with the fragments of that name.
C13_ChecksumIsStandard ==
    pc \in {"summed", "decoded"}
    => /\ calculated_checksum \in 0..255
       /\ calculated_checksum = StandardChecksum(SubSeq(entry, 1, 11), 11)
       /\ SubSeq(entry, 1, 11) = NameLive => calculated_checksum = 137

C13_Witness ==
    /\ pc = "summed"
    /\ SubSeq(entry, 1, 11) = NameLive
    /\ calculated_checksum = 137
    /\ calculated_checksum = directory_dump[13]

\* C14: parse_single_entry decodes every record: first byte 0x00 to Free,
\* first byte 0xE5 to Deleted whatever the attribute byte, otherwise
\* attribute 0x0F to a long-name fragment, otherwise an attribute without
\* the volume-id bit to a short entry (a directory when the directory bit
\* is set), and every other attribute to Unknown, which carries no name,
\* cluster or size.
C14_ParseIsTotal ==
    pc # "entry"
    => LET first == entry[1]
           attr == entry[12]
           populated == first # 0 /\ first # 229
           volume == (attr \div 8) % 2 = 1
           directory == (attr \div 16) % 2 = 1
       IN  /\ info.type \in { "ENTRY_TYPE_FREE", "ENTRY_TYPE_DELETED",
                              "ENTRY_TYPE_LFN", "ENTRY_TYPE_SHORT",
                              "ENTRY_TYPE_DIRECTORY", "ENTRY_TYPE_UNKNOWN" }
           /\ first = 0 => info = ZeroInfo
           /\ first = 229 => info = [ZeroInfo EXCEPT !.type = "ENTRY_TYPE_DELETED"]
           /\ (populated /\ attr = 15)
              => /\ info.type = "ENTRY_TYPE_LFN"
                 /\ info.lfn_sequence = first
                 /\ info.lfn_checksum = entry[14]
                 /\ info.lfn_name1 \o info.lfn_name2 \o info.lfn_name3
                      = LfnViewOf(entry).LDIR_Name1 \o LfnViewOf(entry).LDIR_Name2
                        \o LfnViewOf(entry).LDIR_Name3
           /\ (populated /\ attr # 15 /\ ~ volume)
              => /\ info.type = IF directory THEN "ENTRY_TYPE_DIRECTORY"
                                ELSE "ENTRY_TYPE_SHORT"
                 /\ SubSeq(info.short_name, 1, 11) = SubSeq(entry, 1, 11)
                 /\ info.first_cluster_low = entry[27] + 256 * entry[28]
                 /\ info.first_cluster_high = entry[21] + 256 * entry[22]
                 /\ info.file_size = entry[29] + 256 * entry[30]
                                     + 65536 * (entry[31] + 256 * entry[32])
           /\ (populated /\ attr # 15 /\ volume)
              => info = [ZeroInfo EXCEPT !.type = "ENTRY_TYPE_UNKNOWN",
                                         !.attributes = attr]

C14_Witness ==
    /\ pc = "parsed"
    /\ entry[1] = 229
    /\ entry[12] = 15
    /\ info.type = "ENTRY_TYPE_DELETED"

-----------------------------------------------------------------------------
(* Directory walk of the fork-per-file variant: main of                    *)
(* src/.shadow/fsrecov/fsrecov.c                                           *)

\* directory records per cluster of the volumes walked
SlotsPerCluster == 5
\* processes the parent may have as children before fork fails (EAGAIN)
MaxChildren == 9

\* The volume walked: clusters 2 and 3 hold directory records, cluster 4
\* starts with a BMP header and cluster 5 holds other data.
WalkHeader ==
    Header(SIGNATURE, BytesPerSector, 2 * SlotsPerCluster, 1, 1, 1,
           2 + 4 * 2 * SlotsPerCluster)
RecordClusters == {2, 3}
HeaderCluster == 4

\* uint32_t totalClusters = dataSectors / sectorsPerCluster
totalClusters(h) ==
    u32(h.BPB_TotSec32 - data_sector_offset(h)) \div h.BPB_SecPerClus

\* cluster 5 starts with the signature "BM" and an 8-bit info header
SignatureOnlyCluster == 5

BMP_SIGNATURE == 19778   \* 0x4D42

\* the fields of BMPHeader and BMPInfoHeader that is_bmp_header reads
BmpHead(signature, dataOffset, headerSize, bitsPerPixel, width, height) ==
    [signature |-> signature, dataOffset |-> dataOffset,
     headerSize |-> headerSize, bitsPerPixel |-> bitsPerPixel,
     width |-> width, height |-> height]

\* is_bmp_header
is_bmp_header(head) ==
    /\ head.signature = BMP_SIGNATURE
    /\ head.dataOffset >= 54
    /\ head.headerSize >= 40
    /\ head.bitsPerPixel = 24
    /\ head.width > 0 /\ head.width < 10000
    /\ head.height > 0 /\ head.height < 10000

\* What the first bytes of a cluster hold when read as a BMP header.  The
\* signature of a record cluster is the first two name bytes of its first
\* record; no name drawn starts with "BM", so the other fields are not read.
ClusterHead(ds, cluster) ==
    IF cluster = HeaderCluster THEN BmpHead(BMP_SIGNATURE, 54, 40, 24, 4, 4)
    ELSE IF cluster = SignatureOnlyCluster
    THEN BmpHead(BMP_SIGNATURE, 54, 40, 8, 4, 4)
    ELSE IF cluster \in DOMAIN ds
    THEN BmpHead(ds[cluster][1].DIR_Name[1] + 256 * ds[cluster][1].DIR_Name[2],
                 0, 0, 0, 0, 0)
    ELSE BmpHead(0, 0, 0, 0, 0, 0)

\* a record of 32 zero bytes
FreeView ==
    View(<<0, 0, 0, 0, 0, 0, 0, 0, 0, 0, 0>>, 0, 0, 0, 0, 0,
         <<0, 0, 0, 0, 0>>, <<0, 0, 0, 0, 0, 0>>, <<0, 0>>)

\* the BMP entry every slot holds unless another record is drawn for it
CandidateView == ShortView(NameLive, HeaderCluster, 48)

\* The other records drawn: a free record, the fragment "a.bmp", a deleted
\* BMP entry, an entry with another extension and BMP entries whose first
\* cluster holds no BMP header: a record cluster, and the cluster with the
\* signature only.
SpecialViews ==
    { FreeView, LfnSingle, ShortView(NameDeleted, HeaderCluster, 20), OtherView,
      ShortView(NameLive, 2, 48), ShortView(NameLive, SignatureOnlyCluster, 48) }

\* The record clusters drawn: candidates everywhere but in at most two
\* slots, a volume whose second record cluster is all free, and volumes
\* with the two fragments of "0M15C.bmp" as they are stored, the last
\* fragment first, before an entry of the first record cluster.
WalkDirs ==
    LET n == 2 * SlotsPerCluster
        slots(c, f) == [i \in 1..SlotsPerCluster |-> f[(c - 2) * SlotsPerCluster + i]]
        plain == [k \in 1..n |-> CandidateView]
    IN  { [c \in RecordClusters |-> slots(c, [plain EXCEPT ![a] = x, ![b] = y])] :
            a \in 1..n, b \in 1..n, x \in SpecialViews \cup {CandidateView},
            y \in SpecialViews \cup {CandidateView} }
        \cup
        { [c \in RecordClusters |->
             IF c = 2 THEN slots(c, plain)
             ELSE [i \in 1..SlotsPerCluster |-> FreeView]] }
        \cup
        { [c \in RecordClusters |->
             slots(c, [plain EXCEPT ![a] = LfnLast, ![a + 1] = LfnFirst])] :
            a \in 1..(SlotsPerCluster - 2) }

\* is_valid_filename_char
is_valid_filename_char(c) == c >= 32 /\ c <= 126

\* is_directory_cluster over the records of one cluster; LDIR_Type and
\* LDIR_FstClusLO of the long-name records drawn are 0
is_directory_cluster(entries) ==
    LET counted == { i \in 1..Len(entries) :
                       entries[i].DIR_Name[1] # 229 /\ entries[i].DIR_Name[1] # 0 }
        valid(i) ==
            IF entries[i].DIR_Attr = ATTR_LONG_NAME
            THEN \E j \in 1..5 :
                   LET c == entries[i].LDIR_Name1[j]
                   IN  c # 65535 /\ (c = 0 \/ is_valid_filename_char(c % 256))
            ELSE IF entries[i].DIR_Attr = ATTR_ARCHIVE
                    \/ entries[i].DIR_Attr = FAT32_ATTR_DIRECTORY
            THEN is_valid_filename_char(entries[i].DIR_Name[1])
            ELSE FALSE
        valid_entries == Cardinality({ i \in counted : valid(i) })
        invalid_entries == Cardinality({ i \in counted : ~ valid(i) })
    IN  valid_entries > 0 /\ valid_entries > invalid_entries

\* Step 1 of main: the type of every cluster; is_bmp_header is decided by
\* the bytes of the cluster, which only HeaderCluster has.
classify(h, ds) ==
    [cluster \in 2..(totalClusters(h) + 1) |->
        IF is_bmp_header(ClusterHead(ds, cluster)) THEN "CLUSTER_BMP_HEADER"
        ELSE IF cluster \in DOMAIN ds /\ is_directory_cluster(ds[cluster])
        THEN "CLUSTER_DIR_ENTRY"
        ELSE "CLUSTER_UNUSED"]

\* The entries the two nested loops of Step 2 visit, in order: cluster and
\* index i (from 0) of each entry of each directory cluster.
walk_order(types) ==
    LET RECURSIVE from(_)
        from(cluster) ==
            IF cluster \notin DOMAIN types THEN <<>>
            ELSE (IF types[cluster] = "CLUSTER_DIR_ENTRY"
                  THEN [i \in 1..SlotsPerCluster |->
                          [cluster |-> cluster, i |-> i - 1]]
                  ELSE <<>>)
                 \o from(cluster + 1)
    IN  from(2)

\* char shortName[13]: name, '.', extension, each up to its first space
shortName(DIR_Name) ==
    LET RECURSIVE upto(_, _)
        upto(j, last) == IF j > last \/ DIR_Name[j] = 32 THEN <<>>
                         ELSE <<DIR_Name[j]>> \o upto(j + 1, last)
    IN  upto(1, 8) \o <<46>> \o upto(9, 11)

\* the long-name records before entries[i] (i from 0), nearest first
lfnEntries(entries, i) ==
    LET RECURSIVE back(_, _)
        back(k, count) ==
            IF k < 0 \/ count >= 20 \/ entries[k + 1].DIR_Attr # ATTR_LONG_NAME
            THEN <<>>
            ELSE <<entries[k + 1]>> \o back(k - 1, count + 1)
    IN  back(i - 1, 0)

tolower(c) == IF c >= 65 /\ c <= 90 THEN c + 32 ELSE c

\* len > 4 && strcasecmp(filename + len - 4, ".bmp") == 0
has_bmp_suffix(filename) ==
    /\ Len(filename) > 4
    /\ [k \in 1..4 |-> tolower(filename[Len(filename) - 4 + k])]
         = <<46, 98, 109, 112>>

\* filename of entries[i]: the long name when long-name records precede it
walk_filename(entries, i) ==
    IF Len(lfnEntries(entries, i)) > 0
    THEN strdup(extract_long_filename(lfnEntries(entries, i)))
    ELSE shortName(entries[i + 1].DIR_Name)

\* the test of the first cluster, left out
first_cluster_is_header_unchecked(types, startCluster) == TRUE

\* !(clusterTypes[startCluster] != CLUSTER_BMP_HEADER)
first_cluster_is_header(types, startCluster) ==
    types[startCluster] = "CLUSTER_BMP_HEADER"

\* the body of the inner loop up to fork(): whether entries[i] of a
\* directory cluster gets a worker
is_walk_candidate(h, types, entries, i) ==
    LET e == entries[i + 1]
    IN  /\ e.DIR_Name[1] # 0
        /\ e.DIR_Attr # ATTR_LONG_NAME
        /\ ~ HasBit(e.DIR_Attr, FAT32_ATTR_DIRECTORY)
        /\ ~ HasBit(e.DIR_Attr, FAT32_ATTR_VOLUME_ID)
        /\ has_bmp_suffix(walk_filename(entries, i))
        /\ ~ (e.FstClus < 2 \/ e.FstClus >= totalClusters(h) + 2
              \/ e.DIR_FileSize = 0)
        /\ first_cluster_is_header(types, e.FstClus)

\* fork(): fails (EAGAIN) when the parent already has MaxChildren children
\* that were not waited for
fork_succeeds(r, z) == r + z < MaxChildren

\* wait as it would be if it returned at once while children still run
wait_without_blocking(r, z) ==
    IF z > 0 THEN "collected" ELSE "none"

\* wait(NULL): a terminated child is collected; with children still
\* running the call blocks; with no children it fails with ECHILD
wait(r, z) ==
    IF z > 0 THEN "collected"
    ELSE IF r > 0 THEN "blocked"
    ELSE "none"

InitWalk ==
    /\ pc = "map_disk"
    /\ hdr \in { WalkHeader, [WalkHeader EXCEPT !.Signature_word = 0] }
    /\ fsize = hdr.BPB_TotSec32 * hdr.BPB_BytsPerSec
    /\ dirs \in WalkDirs
    /\ clusterTypes = <<>>
    /\ slot = 0
    /\ recoveredFileCount = 0
    /\ running = 0
    /\ zombies = 0
    /\ forked = <<>>
    /\ EntryIdle
    /\ CallIdle
    /\ WorkerIdle
    /\ passes = {}
    /\ file = NoFile
    /\ tmp_file = <<>>
    /\ cts_arg = 0
    /\ cts_ret = NullPtr
    /\ dents = <<>>
    /\ p = 0
    /\ bmp_files = <<>>
    /\ idx = 0
    /\ dir_exists = FALSE
    /\ out_dir = {}
    /\ report = {}
    /\ munmaps = 0
    /\ exit_status = 0

\* what no step of the walk changes
WalkFrame ==
    /\ UNCHANGED <<hdr, fsize, cts_arg, cts_ret, dirs>>
    /\ UNCHANGED <<dents, p, bmp_files, idx, dir_exists, out_dir, report>>
    /\ UNCHANGED resolve_vars
    /\ UNCHANGED entry_vars
    /\ UNCHANGED call_vars
    /\ UNCHANGED worker_vars

\* main: map_disk(argv[1]), which exits with 1 itself when it rejects
WalkMapDisk ==
    /\ pc = "map_disk"
    /\ IF map_disk_accepts(hdr, fsize)
       THEN pc' = "classify" /\ UNCHANGED exit_status
       ELSE pc' = "exit" /\ exit_status' = 1
    /\ UNCHANGED <<clusterTypes, slot, recoveredFileCount, running, zombies,
                   forked, munmaps>>
    /\ WalkFrame

\* main: calloc of clusterTypes and Step 1
Classify ==
    /\ pc = "classify"
    /\ \/ /\ clusterTypes' = classify(hdr, dirs)
          /\ pc' = "walk"
          /\ UNCHANGED exit_status
       \/ /\ pc' = "exit"
          /\ exit_status' = 1
          /\ UNCHANGED clusterTypes
    /\ UNCHANGED <<slot, recoveredFileCount, running, zombies, forked, munmaps>>
    /\ WalkFrame

\* main, Step 2: one pass of the inner loop body
WalkEntry ==
    /\ pc = "walk"
    /\ slot < Len(walk_order(clusterTypes))
    /\ LET at == walk_order(clusterTypes)[slot + 1]
           entries == dirs[at.cluster]
       IN  IF is_walk_candidate(hdr, clusterTypes, entries, at.i)
           THEN IF fork_succeeds(running, zombies)
                THEN /\ forked' = Append(forked, at)
                     /\ recoveredFileCount' = recoveredFileCount + 1
                     /\ running' = running + 1
                     \* every 8th fork: while (waitpid(-1, NULL, WNOHANG) > 0);
                     /\ zombies' = IF (recoveredFileCount + 1) % 8 = 0
                                   THEN 0 ELSE zombies
                ELSE UNCHANGED <<forked, recoveredFileCount, running, zombies>>
           ELSE UNCHANGED <<forked, recoveredFileCount, running, zombies>>
    /\ slot' = slot + 1
    /\ UNCHANGED <<pc, clusterTypes, munmaps, exit_status>>
    /\ WalkFrame

\* a worker: recover_file_data, calculate_sha1, exit(0)
ChildExit ==
    /\ pc \in {"walk", "wait", "teardown", "exit"}
    /\ running > 0
    /\ running' = running - 1
    /\ zombies' = zombies + 1
    /\ UNCHANGED <<pc, clusterTypes, slot, recoveredFileCount, forked, munmaps,
                   exit_status>>
    /\ WalkFrame

\* main: while (wait(NULL) > 0);
WaitAll ==
    /\ \/ pc = "walk" /\ slot = Len(walk_order(clusterTypes))
       \/ pc = "wait"
    /\ wait(running, zombies) # "blocked"
    /\ IF wait(running, zombies) = "collected"
       THEN pc' = "wait" /\ zombies' = zombies - 1
       ELSE pc' = "teardown" /\ UNCHANGED zombies
    /\ UNCHANGED <<clusterTypes, slot, recoveredFileCount, running, forked,
                   munmaps, exit_status>>
    /\ WalkFrame

\* main: free(clusterTypes); munmap(hdr, ...); falling off the end of main
Teardown ==
    /\ pc = "teardown"
    /\ pc' = "exit"
    /\ clusterTypes' = <<>>
    /\ munmaps' = munmaps + 1
    /\ exit_status' = 0
    /\ UNCHANGED <<slot, recoveredFileCount, running, zombies, forked>>
    /\ WalkFrame

NextWalk ==
    \/ WalkMapDisk
    \/ Classify
    \/ WalkEntry
    \/ ChildExit
    \/ WaitAll
    \/ Teardown

SpecWalk == InitWalk /\ [][NextWalk]_vars

-----------------------------------------------------------------------------
(* Claims about the directory walk                                         *)

\* C16: the scan of a directory cluster stops at its first free entry
\* (first byte 0x00): no entry after a free entry of the same cluster gets
\* a worker.
C16_WalkStopsAtFree ==
    \A k \in 1..Len(forked) :
        \A j \in 1..forked[k].i : dirs[forked[k].cluster][j].DIR_Name[1] # 0

\* C18: at every moment at most 8 forked workers are still running.
C18_AtMostEightRunning == running <= 8

\* C19: the parent reaches teardown (free of the cluster table, munmap,
\* exit) only after every forked worker has terminated and been waited for.
C19_TeardownAfterWorkers ==
    pc \in {"teardown", "exit"} => running = 0 /\ zombies = 0

\* the parent has torn down after forking workers
C19_Witness ==
    /\ pc = "exit"
    /\ exit_status = 0
    /\ munmaps = 1
    /\ Len(forked) >= 2

\* C19, primary pipeline: the report lists only files of the output
\* directory and is made only after the recovery loop has passed every
\* candidate.
C19_ReportAfterAllFiles ==
    report # {} =>
        /\ idx = Len(bmp_files)
        /\ report \subseteq { f.name : f \in out_dir }

-----------------------------------------------------------------------------
(* Claims about the output of the primary pipeline                         *)

\* C21: two runs over the same image write the same bytes to every file of
\* the same name: the content of an output file is the one a run writes for
\* its candidate whatever the heap of that run holds.
C21_SameContentEveryRun ==
    \A f \in out_dir : \A heap \in HeapFills :
        \E k \in 1..Len(bmp_files) :
            /\ bmp_files[k].pos = f.pos
            /\ f = written_file(bmp_files[k],
                                read_bmp_data(hdr, bmp_files[k].first_cluster,
                                              bmp_files[k].size),
                                heap)

\* the bytes read_all_dents keeps in a short name; the others become '?'
valid_filename_byte(c) == c >= 32 /\ c <= 126

\* C22: every output file is named by the long name of its candidate when
\* there is one and by the short name otherwise, and no byte of that name is
\* an invalid filename byte: each was replaced by the placeholder.
C22_NamesSanitized ==
    \A f \in out_dir :
        /\ \E k \in 1..Len(bmp_files) :
              /\ bmp_files[k].pos = f.pos
              /\ f.name = output_name(bmp_files[k])
        /\ \A k \in 1..Len(f.name) : valid_filename_byte(f.name[k])

\* C23: a worker (recover_file_data, then the digest) is forked only for an
\* entry whose first cluster passes is_bmp_header.
C23_WorkersStartAtHeader ==
    \A k \in 1..Len(forked) :
        is_bmp_header(ClusterHead(dirs,
            dirs[forked[k].cluster][forked[k].i + 1].FstClus))

\* the walk has passed a BMP entry whose first cluster has the signature
\* but fails the header check, and forked workers for other entries
C23_Witness ==
    /\ pc = "walk"
    /\ slot = Len(walk_order(clusterTypes))
    /\ Len(forked) > 0
    /\ \E c \in RecordClusters : \E j \in 1..SlotsPerCluster :
          /\ clusterTypes[c] = "CLUSTER_DIR_ENTRY"
          /\ dirs[c][j] = ShortView(NameLive, SignatureOnlyCluster, 48)

\* C24: the name extract_long_filename returns for the fragments collected
\* backwards from a short entry reads in natural order: the text of
\* sequence number 1 first, the text of the last fragment last.
C24_NameInNaturalOrder ==
    (pc = "walk" /\ slot < Len(walk_order(clusterTypes)))
    => LET at == walk_order(clusterTypes)[slot + 1]
           entries == dirs[at.cluster]
           run == lfnEntries(entries, at.i)
       IN  ( /\ entries[at.i + 1].DIR_Attr # ATTR_LONG_NAME
             /\ WellFormedRun(run, entries[at.i + 1]) )
           => walk_filename(entries, at.i) = LongNameOfRun(run)

-----------------------------------------------------------------------------
(* Single calls of is_bmp_data and of the two long-name assemblers, on     *)
(* arguments drawn from the shapes the callers pass                        *)

\* is_bmp_data(data, size) over the bytes of the cluster (bytes[i + 1] is
\* data[i]): the windows sampled, how many of them are smooth, and the
\* value returned
is_bmp_data_bytes(bytes, size) ==
    LET abs(x) == IF x < 0 THEN -x ELSE x
        RECURSIVE loop(_, _, _)
        loop(i, windows, smooth_transitions) ==
            IF ~ (i < size - 6)
            THEN [windows |-> windows,
                  smooth_transitions |-> smooth_transitions,
                  result |-> smooth_transitions > size \div 15]
            ELSE LET r1 == bytes[i + 3]
                     g1 == bytes[i + 2]
                     b1 == bytes[i + 1]
                     r2 == bytes[i + 6]
                     g2 == bytes[i + 5]
                     b2 == bytes[i + 4]
                     diff == abs(r1 - r2) + abs(g1 - g2) + abs(b1 - b2)
                 IN  loop(i + 3, windows + 1,
                          IF diff < 100 THEN smooth_transitions + 1
                          ELSE smooth_transitions)
    IN  loop(0, 0, 0)

\* The clusters drawn: pixels of three bytes; the first s transitions keep
\* the colour, every later one changes the channels by delta, back and
\* forth.
PixelCluster(size, s, delta) ==
    [k \in 1..size |->
        LET pixel == (k - 1) \div 3
            channel == ((k - 1) % 3) + 1
        IN  IF pixel > s /\ (pixel - s) % 2 = 1 THEN delta[channel] ELSE 0]

ClusterSizes == {16, 32, 45, 60}
Deltas == { <<33, 33, 33>>, <<34, 33, 33>>, <<0, 200, 0>> }

\* a run of count long-name records as main collects them, nearest first,
\* each with t name units before the terminator
LfnRunOf(count, t) ==
    [i \in 1..count |->
        LET units == UnitPattern(t, 0, 0)
        IN  LfnView(IF i = count THEN 64 + i ELSE i,
                    calculate_lfn_checksum(NameLive),
                    SubSeq(units, 1, 5), SubSeq(units, 6, 11),
                    SubSeq(units, 12, 13))]

\* the longest run of long-name records drawn for the raw scan, which puts
\* no limit on the run
MaxScanRun == 6

\* struct fat32_lfn_entry lfnEntries[20]; while (... lfnCount < 20 ...)
MaxLfnEntries == 20
\* calloc(256, 1)
FilenameBufferSize == 256
\* char full_name[64]
FullNameBufferSize == 64

\* extract_long_filename: the indices of filename[] written, the
\* terminating NUL at pos included
extract_long_filename_writes(lfn_entries) ==
    0..Len(extract_long_filename(lfn_entries))

\* The look-back of read_all_dents over a run of long-name records, nearest
\* first: full_name_pos after it and the indices of full_name[] written.
full_name_writes(run) ==
    LET field(units, start) ==
            LET RECURSIVE loop(_, _)
                loop(i, st) ==
                    IF ~ (i <= Len(units) /\ st.pos < FullNameMax) THEN st
                    ELSE IF units[i] # 0 /\ units[i] # 65535
                    THEN loop(i + 1, [pos |-> st.pos + 1,
                                      written |-> st.written \cup {st.pos}])
                    ELSE loop(i + 1, st)
            IN  loop(1, start)
        RECURSIVE records(_)
        records(k) ==
            IF k = 0 THEN [pos |-> 0, written |-> {}]
            ELSE field(run[k].LDIR_Name3,
                       field(run[k].LDIR_Name2,
                             field(run[k].LDIR_Name1, records(k - 1))))
    IN  records(Len(run))

CallArgs ==
    { [fn |-> "is_bmp_data", data |-> PixelCluster(size, s, delta),
       size |-> size] :
        size \in ClusterSizes, s \in 0..20, delta \in Deltas }
    \cup
    { [fn |-> "extract_long_filename", lfn_entries |-> LfnRunOf(count, t)] :
        count \in 1..MaxLfnEntries, t \in {0, 5, 12, 13} }
    \cup
    { [fn |-> "read_all_dents", lfn_entries |-> LfnRunOf(count, t)] :
        count \in 1..MaxScanRun, t \in {0, 5, 12, 13} }

InitCall ==
    /\ pc = "call"
    /\ arg \in CallArgs
    /\ ret = <<>>
    /\ hdr = Header(SIGNATURE, BytesPerSector, 1, 1, 1, 1, 2 + NPos)
    /\ fsize = hdr.BPB_TotSec32 * hdr.BPB_BytsPerSec
    /\ cts_arg = 0
    /\ cts_ret = NullPtr
    /\ dents = <<>>
    /\ p = 0
    /\ bmp_files = <<>>
    /\ idx = 0
    /\ dir_exists = FALSE
    /\ out_dir = {}
    /\ report = {}
    /\ munmaps = 0
    /\ exit_status = 0
    /\ passes = {}
    /\ file = NoFile
    /\ tmp_file = <<>>
    /\ EntryIdle
    /\ WalkIdle
    /\ WorkerIdle

CallFrame ==
    /\ UNCHANGED <<hdr, fsize, cts_arg, cts_ret, arg>>
    /\ UNCHANGED main_vars
    /\ UNCHANGED resolve_vars
    /\ UNCHANGED entry_vars
    /\ UNCHANGED walk_vars
    /\ UNCHANGED worker_vars

\* is_bmp_data(disk + clusterOffset, clusterSize)
CallIsBmpData ==
    /\ pc = "call"
    /\ arg.fn = "is_bmp_data"
    /\ ret' = is_bmp_data_bytes(arg.data, arg.size)
    /\ pc' = "returned"
    /\ CallFrame

\* filename = extract_long_filename(lfnEntries, lfnCount)
CallExtractLongFilename ==
    /\ pc = "call"
    /\ arg.fn = "extract_long_filename"
    /\ ret' = [filename |-> extract_long_filename(arg.lfn_entries),
               written |-> extract_long_filename_writes(arg.lfn_entries)]
    /\ pc' = "returned"
    /\ CallFrame

\* the do-while of read_all_dents that fills full_name
CallFullName ==
    /\ pc = "call"
    /\ arg.fn = "read_all_dents"
    /\ ret' = full_name_writes(arg.lfn_entries)
    /\ pc' = "returned"
    /\ CallFrame

NextCall ==
    \/ CallIsBmpData
    \/ CallExtractLongFilename
    \/ CallFullName

SpecCall == InitCall /\ [][NextCall]_vars

-----------------------------------------------------------------------------
(* Claims about the single calls                                           *)

\* the offsets i of the 3-byte windows is_bmp_data samples in a cluster
SampledWindows(size) == { i \in 0..(size - 7) : i % 3 = 0 }

\* |r1 - r2| + |g1 - g2| + |b1 - b2| of the pixels at offsets i and i + 3
ChannelDifference(bytes, i) ==
    LET abs(x) == IF x < 0 THEN -x ELSE x
    IN  abs(bytes[i + 3] - bytes[i + 6]) + abs(bytes[i + 2] - bytes[i + 5])
        + abs(bytes[i + 1] - bytes[i + 4])

SmoothWindows(bytes, size) ==
    { i \in SampledWindows(size) : ChannelDifference(bytes, i) < 100 }

C25_CountsSmoothWindows ==
    (pc = "returned" /\ arg.fn = "is_bmp_data")
    => /\ ret.windows = Cardinality(SampledWindows(arg.size))
       /\ ret.smooth_transitions
            = Cardinality(SmoothWindows(arg.data, arg.size))

\* C29: the assembly of a long name writes inside its buffer only:
\* extract_long_filename inside the 256 bytes of filename, the terminating
\* NUL included, for every run of up to 20 fragments of up to 13
\* characters; the raw scan inside the 64 bytes of full_name, with
\* full_name_pos never above 63.
C29_WritesInsideBuffer ==
    pc = "returned"
    => /\ arg.fn = "extract_long_filename"
            => \A w \in ret.written : w < FilenameBufferSize
       /\ arg.fn = "read_all_dents"
            => /\ ret.pos <= FullNameMax
               /\ \A w \in ret.written : w < FullNameBufferSize

\* the part of C29 about the raw scan
C29_FullNameInsideBuffer ==
    (pc = "returned" /\ arg.fn = "read_all_dents")
    => /\ ret.pos <= FullNameMax
       /\ \A w \in ret.written : w < FullNameBufferSize

-----------------------------------------------------------------------------
(* Further claims on the resolver, checked under SpecResolve               *)

\* C27: every cluster whose bytes the resolver reads (the contiguity probes
\* and the probes of the search) and every cluster written out lies in
\* [2, max_valid_cluster], inside the mapped image.
C27_ReadsInsideImage ==
    /\ pc = "sha1"
         => \A c \in file.probes :
               /\ c >= 2 /\ c <= max_valid_cluster_num(hdr)
               /\ ClusterInsideImage(hdr, fsize, c)
    /\ (pc = "exit" /\ exit_status = 0)
         => \A k \in 1..Len(tmp_file) :
               /\ tmp_file[k].cluster >= 2
               /\ tmp_file[k].cluster <= max_valid_cluster_num(hdr)
               /\ ClusterInsideImage(hdr, fsize, tmp_file[k].cluster)

\* C26: when recover_file_data returns with valid = true, clusterCount is
\* ceil(fileSize / clusterSize), every slot 0 .. clusterCount - 1 of clusters
\* has been assigned, no assignment targets an index >= clusterCount, and
\* currentIndex + remainingClusters = clustersNeeded - 1 at every head of the
\* search loop.
C26_ChainFullyAssigned ==
    (pc = "sha1" /\ file.valid)
    => /\ file.clusterCount
            = ClustersToCover(file.fileSize, bytes_per_cluster(hdr))
       /\ \A i \in 0..(file.clusterCount - 1) : i \in file.written
       /\ \A i \in file.written : i < file.clusterCount
       /\ \A h \in file.loop_heads : h[1] + h[2] = file.clusterCount - 1

\* the part of C26 for the file sizes whose rounding up does not wrap
C26_ChainFullyAssignedNoWrap ==
    (pc = "sha1" /\ file.valid
       /\ file.fileSize + bytes_per_cluster(hdr) - 1 < U32)
    => /\ file.clusterCount
            = ClustersToCover(file.fileSize, bytes_per_cluster(hdr))
       /\ \A i \in 0..(file.clusterCount - 1) : i \in file.written
       /\ \A i \in file.written : i < file.clusterCount
       /\ \A h \in file.loop_heads : h[1] + h[2] = file.clusterCount - 1

-----------------------------------------------------------------------------
(* Further claims on the primary pipeline, checked under Spec              *)

\* C28: the raw scan reads inside the mapped image only: at every stride
\* position whose extension bytes match, the cluster and size fields of the
\* 32-byte record (offsets 20 to 31) lie before data_end, and the look-back
\* never reads a record before the start of the data region.
C28_ScanReadsInsideImage ==
    (pc = "scan" /\ InDataRegion(p) /\ is_bmp_dent(dents[p + 1]))
    => /\ ~ RecordPastEnd(p)
       /\ \A k \in 1..Len(LfnRunBefore(dents, p)) : p - 2 * k >= 0

\* the part of C28 about the look-back
C28_LookBackInsideDataRegion ==
    (pc = "scan" /\ InDataRegion(p) /\ is_bmp_dent(dents[p + 1]))
    => \A k \in 1..Len(LfnRunBefore(dents, p)) : p - 2 * k >= 0

-----------------------------------------------------------------------------
(* Two workers forked by main of src/.shadow/fsrecov/fsrecov.c, each in    *)
(* calculate_sha1 for its own candidate                                    *)

\* The candidates of the workers: first clusters and sizes of directory
\* entries that passed the tests of main.  Two entries may name the same
\* first cluster.
WorkerStartClusters == {4, 6}
WorkerFileSizes == {16, 48}

\* snprintf(tempFileName, ..., "/tmp/fsrecov_temp_%u", file->startCluster)
tempFileName(f) == f.startCluster

\* /tmp: paths maps a name to the inode it links to (0: no such file);
\* inodes maps an inode, numbered by the worker that created it, to the
\* file content, which is the first len bytes of the chain that starts at
\* the first cluster in the name.
NoTmpDir ==
    [paths |-> [n \in WorkerStartClusters |-> 0],
     inodes |-> [w \in 1..2 |-> 0]]

InitWorkers ==
    /\ pc = "workers"
    /\ workers \in [1..2 -> { [startCluster |-> s, fileSize |-> n,
                               at |-> "fopen", fp |-> 0, sha1sum |-> <<>>] :
                               s \in WorkerStartClusters,
                               n \in WorkerFileSizes }]
    /\ tmp_dir = NoTmpDir
    /\ hdr = Header(SIGNATURE, BytesPerSector, 1, 1, 1, 1, 2 + NPos)
    /\ fsize = hdr.BPB_TotSec32 * hdr.BPB_BytsPerSec
    /\ cts_arg = 0
    /\ cts_ret = NullPtr
    /\ dents = <<>>
    /\ p = 0
    /\ bmp_files = <<>>
    /\ idx = 0
    /\ dir_exists = FALSE
    /\ out_dir = {}
    /\ report = {}
    /\ munmaps = 0
    /\ exit_status = 0
    /\ passes = {}
    /\ file = NoFile
    /\ tmp_file = <<>>
    /\ EntryIdle
    /\ WalkIdle
    /\ CallIdle

WorkerFrame ==
    /\ UNCHANGED <<pc, hdr, fsize, cts_arg, cts_ret>>
    /\ UNCHANGED main_vars
    /\ UNCHANGED resolve_vars
    /\ UNCHANGED entry_vars
    /\ UNCHANGED walk_vars
    /\ UNCHANGED call_vars

\* fopen(tempFileName, "wb"): the file is created, or truncated when it
\* exists; on failure calculate_sha1 returns
WorkerFopen(w) ==
    /\ workers[w].at = "fopen"
    /\ LET name == tempFileName(workers[w])
           inode == IF tmp_dir.paths[name] = 0 THEN w ELSE tmp_dir.paths[name]
       IN  \/ /\ tmp_dir' = [paths |-> [tmp_dir.paths EXCEPT ![name] = inode],
                             inodes |-> [tmp_dir.inodes EXCEPT ![inode] = 0]]
              /\ workers' = [workers EXCEPT ![w].at = "fclose", ![w].fp = inode]
           \/ /\ workers' = [workers EXCEPT ![w].at = "done"]
              /\ UNCHANGED tmp_dir
    /\ WorkerFrame

\* the fwrite loop and fclose(fp): fileSize bytes from offset 0 of the file
\* fp is open on
WorkerFclose(w) ==
    /\ workers[w].at = "fclose"
    /\ LET inode == workers[w].fp
           len == IF tmp_dir.inodes[inode] > workers[w].fileSize
                  THEN tmp_dir.inodes[inode] ELSE workers[w].fileSize
       IN  tmp_dir' = [tmp_dir EXCEPT !.inodes[inode] = len]
    /\ workers' = [workers EXCEPT ![w].at = "popen", ![w].fp = 0]
    /\ WorkerFrame

\* popen("sha1sum <tempFileName>") and fscanf: the digest of what the name
\* holds now, or no digest when there is no such file; when popen fails the
\* file is unlinked at once
WorkerSha1sum(w) ==
    /\ workers[w].at = "popen"
    /\ LET name == tempFileName(workers[w])
           inode == tmp_dir.paths[name]
       IN  \/ workers' = [workers EXCEPT
                            ![w].at = "unlink",
                            ![w].sha1sum =
                                IF inode = 0 THEN <<>>
                                ELSE <<[startCluster |-> name,
                                        len |-> tmp_dir.inodes[inode]]>>]
           \/ workers' = [workers EXCEPT ![w].at = "unlink"]
    /\ UNCHANGED tmp_dir
    /\ WorkerFrame

\* unlink(tempFileName); the worker then leaves calculate_sha1 and exits
WorkerUnlink(w) ==
    /\ workers[w].at = "unlink"
    /\ tmp_dir' = [tmp_dir EXCEPT !.paths[tempFileName(workers[w])] = 0]
    /\ workers' = [workers EXCEPT ![w].at = "done"]
    /\ WorkerFrame

NextWorkers ==
    \E w \in 1..2 :
        \/ WorkerFopen(w)
        \/ WorkerFclose(w)
        \/ WorkerSha1sum(w)
        \/ WorkerUnlink(w)

SpecWorkers == InitWorkers /\ [][NextWorkers]_vars

\* C30: workers are independent under every interleaving: two workers that
\* are both in calculate_sha1 never use the same temporary file, and the
\* digest a worker reports is the digest of the bytes it wrote for its own
\* candidate.
C30_WorkersIndependent ==
    /\ \A w \in 1..2 : \A v \in 1..2 :
          ( /\ w # v
            /\ workers[w].at \in {"fclose", "popen", "unlink"}
            /\ workers[v].at \in {"fclose", "popen", "unlink"} )
          => tempFileName(workers[w]) # tempFileName(workers[v])
    /\ \A w \in 1..2 :
          workers[w].sha1sum # <<>>
          => workers[w].sha1sum = <<[startCluster |-> workers[w].startCluster,
                                     len |-> workers[w].fileSize]>>

\* the digest part of C30 alone
C30_DigestOfOwnBytes ==
    \A w \in 1..2 :
        workers[w].sha1sum # <<>>
        => workers[w].sha1sum = <<[startCluster |-> workers[w].startCluster,
                                   len |-> workers[w].fileSize]>>

\* the digest part of C30 for two workers with different first clusters
C30_DigestOfOwnBytesDistinctStart ==
    workers[1].startCluster # workers[2].startCluster
    => \A w \in 1..2 :
          workers[w].sha1sum # <<>>
          => workers[w].sha1sum = <<[startCluster |-> workers[w].startCluster,
                                     len |-> workers[w].fileSize]>>

====
